---- MODULE Spec2Model ----
(***************************************************************************)
(* Model of the job orchestration core of yt2radarr (src/app.py):          *)
(* the job registry (_JOB_CONTROLS), the per-job worker                    *)
(* process_download_job, the cancel_job request handler, the supervised    *)
(* child processes and the files a job leaves on disk.                     *)
(***************************************************************************)
EXTENDS Integers, Sequences, FiniteSets, TLC

\* ------------------------------------------------------------------ bounds
\* Number of files the fetch child may complete under the expected pattern.
MaxSegments == 2
\* Number of cancel requests issued during one behaviour.
MaxCancels == 2

JobIds == {"j1"}
Reqs == 1..MaxCancels

\* Exit codes of a child process: 0, and 1 standing for any non-zero code.
ExitCodes == {0, 1}

VARIABLES
    status,          \* job store: status field of each job ("none": no record)
    message,         \* job store: message field of each job
    cancelLogs,      \* job store: number of "Cancellation requested by user." log lines
    JOB_CONTROLS,    \* the registry table: a set of JobControl entries
    cancel_event,    \* the threading.Event created for each job
    pc,              \* position of each worker in process_download_job
    payload,         \* submitted request of each job
    loc,             \* locals of each worker
    proc,            \* the child process of the worker's current phase
    pipe,            \* lines written by the fetch child and not yet read
    files,           \* files of the job on disk
    terminalWrites,  \* history: terminal status writes of each worker run
    cause,           \* history: the fail(...) call that failed the job
    unregisters,     \* history: registry entries removed by each worker run
    req,             \* cancel_job requests: position and locals of each
    ffmpeg_path,     \* environment: shutil.which("ffmpeg") finds the merge tool
    dirFiles,        \* path resolver: names of the files in the target directory
    desired,         \* path resolver: the desired stem
    fetchedExt,      \* path resolver: extension of the fetched file
    chosen,          \* path resolver: the name the collision rule selected
    stemPc,          \* path resolver: which application of the rule ran
    fed,             \* fetch output: the lines handle_output_line has handled
    logs,            \* fetch output: the job's log entries in the store
    progress,        \* fetch output: the job's progress field in the store
    progress_log_active,  \* fetch output: local flag of the worker
    debug_enabled,   \* fetch output: config debug_mode
    fpc,             \* fetch output: position of the worker in the fetch phase
    fetch_cancel,    \* fetch output: the job's cancel_event
    return_code,     \* fetch output: local of the worker, set by process.wait()
    job_message,     \* fetch output: the job's message field in the store
    ppc,             \* metadata probe: position of the worker in the probe
    info_process,    \* metadata probe: the probe child
    wr,              \* metadata probe: streams some process still holds open for writing
    buf,             \* metadata probe: chunks written to each stream and not yet read
    selector,        \* metadata probe: streams registered with the selector
    chunks,          \* metadata probe: stdout_chunks and stderr_chunks
    elapsed,         \* metadata probe: clock ticks since start_time
    metadata_timed_out,  \* metadata probe: local flag of the worker
    info_returncode, \* metadata probe: <<>> for None, else <<code>>
    probeWarnings,   \* metadata probe: warn(...) calls made for the probe
    info_payload,    \* metadata probe: the entry the resolver selected
    resolved_format, \* metadata probe: the resolved-format summary
    descriptive,     \* metadata probe: the descriptive name of the output
    probe_cancel,    \* metadata probe: the job's cancel_event
    submitted,       \* create: the request body of the last submission
    response,        \* create: the HTTP status answered to it (0: none yet)
    dirs,            \* movie folder: the directories that exist on disk
    resolve_args,    \* movie folder: arguments and configuration of the call
    resolved,        \* movie folder: what resolve_movie_path returned
    rpc,             \* movie folder: position of the worker around the call
    root_entries,         \* standalone folder: what each name under the library root is
    sjob,            \* standalone folder: number of the job that runs
    final_folder_path,  \* standalone folder: n of the name "name (n)" chosen (0: "name")
    created_new,     \* standalone folder: local flag of the worker
    spc,             \* standalone folder: position of the worker
    term_child,  \* termination: the child process is still running
    term_handle,  \* termination: the helper was given a process (not None)
    tpc,  \* termination: position of each caller
    waited,  \* termination: ticks each caller spent in wait(timeout=5)
    sent,  \* termination: calls each caller made on the process, in order
    expired,  \* termination: wait raised TimeoutExpired for the caller
    dead_at_call,  \* termination: the child had exited when terminate() was called
    raised, \* termination: an exception left the caller's code
    reg_table,  \* registry operations: the table the helpers are applied to
    reg_op, \* registry operations: the last call, its job id and the table before it
    norm_data,  \* normalization: the submitted request body
    stored_request,  \* normalization: the request field of the job record
    norm_cancel,  \* normalization: the cancel event of the job
    npc, \* normalization: position of the worker
    pair_dir,  \* two jobs: the files of the shared target directory, each with the job that wrote it
    pair_canon,  \* two jobs: the canonical stem both jobs were given
    pair_job  \* two jobs: position, working stem, picked file and final name of each job

vars == <<status, message, cancelLogs, JOB_CONTROLS, cancel_event, pc, payload,
          loc, proc, pipe, files, terminalWrites, cause, unregisters, req,
          ffmpeg_path,
          dirFiles, desired, fetchedExt, chosen, stemPc,
          fed, logs, progress, progress_log_active, debug_enabled,
          fpc, fetch_cancel, return_code, job_message,
          ppc, info_process, wr, buf, selector, chunks, elapsed,
          metadata_timed_out, info_returncode, probeWarnings, info_payload,
          resolved_format, descriptive, probe_cancel, submitted, response,
          dirs, resolve_args, resolved, rpc,
          root_entries, sjob, final_folder_path, created_new, spc,
          term_child, term_handle, tpc, waited, sent, expired, dead_at_call, raised,
          reg_table, reg_op,
          norm_data, stored_request, norm_cancel, npc,
          pair_dir, pair_canon, pair_job>>

jobVars == <<status, message, cancelLogs, JOB_CONTROLS, cancel_event, pc, payload,
             loc, proc, pipe, files, terminalWrites, cause, unregisters, req>>
pathVars == <<dirFiles, desired, fetchedExt, chosen, stemPc>>
outVars == <<fed, logs, progress, progress_log_active, debug_enabled,
             fpc, fetch_cancel, return_code, job_message>>

\* What the actions of one specification leave alone.
probeIO == <<wr, buf, selector, chunks>>
probeRes == <<metadata_timed_out, info_returncode, probeWarnings, info_payload,
              resolved_format, descriptive>>
probeVars == <<ppc, info_process, probeIO, elapsed, probeRes, probe_cancel>>

submitVars == <<submitted, response>>

resolveVars == <<dirs, resolve_args, resolved, rpc>>

folderVars == <<root_entries, sjob, final_folder_path, created_new, spc>>

termVars == <<term_child, term_handle, tpc, waited, sent, expired, dead_at_call, raised>>

registryVars == <<reg_table, reg_op>>

normVars == <<norm_data, stored_request, norm_cancel, npc>>

pairVars == <<pair_dir, pair_canon, pair_job>>

besideJob == <<pathVars, outVars, probeVars, submitVars, ffmpeg_path, resolveVars,
    folderVars,
    termVars,
    registryVars,
    normVars,
    pairVars>>
besidePath == <<jobVars, outVars, probeVars, submitVars, ffmpeg_path, resolveVars,
    folderVars,
    termVars,
    registryVars,
    normVars,
    pairVars>>
besideOut == <<jobVars, pathVars, probeVars, submitVars, ffmpeg_path, resolveVars,
    folderVars,
    termVars,
    registryVars,
    normVars,
    pairVars>>
besideProbe == <<jobVars, pathVars, outVars, submitVars, ffmpeg_path, resolveVars,
    folderVars,
    termVars,
    registryVars,
    normVars,
    pairVars>>
besideSubmit == <<pathVars, outVars, probeVars, ffmpeg_path, resolveVars,
    folderVars,
    termVars,
    registryVars,
    normVars,
    pairVars>>
besideResolve == <<jobVars, pathVars, outVars, probeVars, submitVars, ffmpeg_path,
    folderVars,
    termVars,
    registryVars,
    normVars,
    pairVars>>
besideFolder == <<jobVars, pathVars, outVars, probeVars, submitVars, ffmpeg_path,
    resolveVars,
    termVars,
    registryVars,
    normVars,
    pairVars>>
besideTerm == <<jobVars, pathVars, outVars, probeVars, submitVars,
    ffmpeg_path, resolveVars, folderVars,
    registryVars,
    normVars,
    pairVars>>
besideRegistry == <<jobVars, pathVars, outVars, probeVars, submitVars,
    ffmpeg_path, resolveVars, folderVars, termVars,
    normVars,
    pairVars>>
besideNorm == <<jobVars, pathVars, outVars, probeVars, submitVars,
    ffmpeg_path, resolveVars, folderVars, termVars, registryVars,
    pairVars>>
besidePair == <<jobVars, pathVars, outVars, probeVars, submitVars,
    ffmpeg_path, resolveVars, folderVars, termVars, registryVars,
    normVars>>

storeVars == <<status, message, cancelLogs>>
workerVars == <<pc, payload, loc, terminalWrites, cause, unregisters>>
childVars == <<proc, pipe>>

Terminal == {"success", "failed", "cancelled"}
Active_any == {"queued", "processing", "success", "failed", "cancelled"}

Active == {"queued", "processing"}

NoProc == [phase |-> "none", alive |-> FALSE, rc |-> 0]
NoFiles == [part |-> FALSE, nOut |-> 0, dir |-> FALSE, manifest |-> FALSE,
            merged |-> FALSE, final |-> FALSE]
NoLocals == [unwinding |-> FALSE, cands |-> "none", expected_pattern |-> FALSE,
             ffmpeg_warned |-> FALSE]
IdleReq == [pc |-> "idle", job |-> "j1", already |-> FALSE, process |-> "none",
            signalled |-> FALSE, code |-> 0]

\* ---------------------------------------------------------------- registry
\* _JOB_CONTROLS.get(job_id)
HasControl(j) == \E c \in JOB_CONTROLS : c.id = j
Control(j) == CHOOSE c \in JOB_CONTROLS : c.id = j

\* Mutant of register_job_control: the entry is never stored.
register_job_control_lost(table, j) == table

\* _register_job_control: _JOB_CONTROLS[job_id] = JobControl(...)
register_job_control(table, j) ==
    {c \in table : c.id # j} \cup {[id |-> j, process |-> "none"]}

set_job_process_creates(table, j, p) ==
    {c \in table : c.id # j} \cup {[id |-> j, process |-> p]}

\* _set_job_process / _clear_job_process: only an existing entry is changed
set_job_process(table, j, p) ==
    {IF c.id = j THEN [c EXCEPT !.process = p] ELSE c : c \in table}

clear_job_process_kept(table, j) == table

clear_job_process(table, j) == set_job_process(table, j, "none")

\* Mutant of unregister_job_control: the entry is left in the table.
unregister_job_control_kept(table, j) == table

\* _unregister_job_control: _JOB_CONTROLS.pop(job_id, None)
unregister_job_control(table, j) == {c \in table : c.id # j}

\* ------------------------------------------------------------- job store
\* _mark_job_failure / _mark_job_success / _mark_job_cancelled / _job_status
mark_job_failure(st, j) == [st EXCEPT ![j] = "failed"]
mark_job_success(st, j) == [st EXCEPT ![j] = "success"]
\* Mutant of mark_job_cancelled: the cancelled status is never stored.
mark_job_cancelled_skipped(st, j) == st

mark_job_cancelled(st, j) == [st EXCEPT ![j] = "cancelled"]
job_status_dropped(st, j, s) == st

job_status(st, j, s) == [st EXCEPT ![j] = s]

\* ------------------------------------------------------------ filesystem
\* _cleanup_temp_files(pattern): removes the .part/.ytdl fragments that match
\* the pattern; a pattern of None removes nothing.
cleanup_temp_files(f, pattern) ==
    IF pattern THEN [f EXCEPT !.part = FALSE] ELSE f

\* shutil.rmtree(playlist_temp_dir): the staging directory goes, with the
\* segments, fragments, manifest and merged file inside it.
rmtree_skipped(f) == f

rmtree(f) ==
    [f EXCEPT !.dir = FALSE, !.part = FALSE, !.nOut = 0,
              !.manifest = FALSE, !.merged = FALSE]

\* _cleanup_playlist_dir(path): rmtree of the staging directory with all the
\* staged segments, fragments, manifest and merged file inside it.
cleanup_playlist_dir(f, path) ==
    IF path /\ f.dir THEN rmtree(f) ELSE f

\* os.remove of every path in downloaded_candidates
remove_candidates(f, cands) ==
    CASE cands = "files"  -> [f EXCEPT !.nOut = 0]
      [] cands = "merged" -> [f EXCEPT !.merged = FALSE]
      [] OTHER            -> f

\* ---------------------------------------------------------------- children
ChildAlive(j) == proc[j].alive

\* _terminate_process(process): terminate(), wait up to 5 s, then kill().
\* A signal reaches the child only when the handle is the live child; the
\* child then exits with some code and may flush one more output line.
Signals(j, handle) == handle # "none" /\ proc[j].phase = handle /\ proc[j].alive

terminate_process(j, handle) ==
    IF Signals(j, handle)
    THEN \E rc \in ExitCodes, flush \in BOOLEAN :
            /\ proc' = [proc EXCEPT ![j].alive = FALSE, ![j].rc = rc]
            /\ pipe' = [pipe EXCEPT ![j] =
                          IF flush /\ handle = "fetch" THEN 1 ELSE @]
    ELSE UNCHANGED <<proc, pipe>>

InitJobs ==
    /\ status = [j \in JobIds |-> "none"]
    /\ message = [j \in JobIds |-> ""]
    /\ cancelLogs = [j \in JobIds |-> 0]
    /\ JOB_CONTROLS = {}
    /\ cancel_event = [j \in JobIds |-> FALSE]
    /\ pc = [j \in JobIds |-> "none"]
    /\ payload = [j \in JobIds |-> [merge_playlist |-> FALSE, standalone |-> FALSE]]
    /\ loc = [j \in JobIds |-> NoLocals]
    /\ proc = [j \in JobIds |-> NoProc]
    /\ pipe = [j \in JobIds |-> 0]
    /\ files = [j \in JobIds |-> NoFiles]
    /\ terminalWrites = [j \in JobIds |-> 0]
    /\ cause = [j \in JobIds |-> "none"]
    /\ unregisters = [j \in JobIds |-> 0]
    /\ req = [r \in Reqs |-> IdleReq]

\* The path resolver is exercised by the specification SpecStem only.
IdlePath ==
    /\ dirFiles = {} /\ desired = <<>> /\ fetchedExt = "" /\ chosen = <<>>
    /\ stemPc = "off"

\* The output-line handler is exercised by the specification SpecOut only.
IdleOut ==
    /\ fed = <<>> /\ logs = <<>> /\ progress = 0
    /\ progress_log_active = FALSE /\ debug_enabled = FALSE
    /\ fpc = "off" /\ fetch_cancel = FALSE /\ return_code = 0
    /\ job_message = <<>>

\* The probe's read loop is exercised by the specification SpecProbe only.
IdleProbe ==
    /\ ppc = "off"
    /\ info_process = [alive |-> FALSE, rc |-> 0]
    /\ wr = {} /\ selector = {}
    /\ buf = [st \in {"stdout", "stderr"} |-> <<>>]
    /\ chunks = [st \in {"stdout", "stderr"} |-> <<>>]
    /\ elapsed = 0
    /\ metadata_timed_out = FALSE /\ info_returncode = <<>> /\ probeWarnings = 0
    /\ info_payload = "None" /\ resolved_format = "empty"
    /\ descriptive = ""
    /\ probe_cancel = FALSE

\* The request validation is exercised by the specification SpecCreate only.
EmptyUrl == [scheme |-> "", host |-> ""]
NoSubmission ==
    [yturl |-> EmptyUrl, movieId |-> "", standalone |-> FALSE,
     playlist_mode |-> "", extra |-> FALSE, extra_name |-> ""]

IdleSubmit == submitted = NoSubmission /\ response = 0

IdleEnv == ffmpeg_path = TRUE

\* A path is the sequence of its components; <<>> is the root directory.
\* The value None of a path:
NoPath == <<"None">>
NoResult == [path |-> NoPath, created |-> FALSE, via |-> "none", rule |-> 0]
NoArgs == [original_path |-> NoPath, path_overrides |-> <<>>, file_paths |-> <<>>,
           create_if_missing |-> FALSE, writable |-> FALSE]

\* The movie folder resolution is exercised by the specification SpecResolve
\* only.
IdleResolve ==
    /\ dirs = {} /\ resolve_args = NoArgs /\ resolved = NoResult /\ rpc = "off"

\* The standalone folder is exercised by the specification SpecFolder only.
IdleFolder ==
    /\ root_entries = <<>> /\ sjob = 0 /\ final_folder_path = 0
    /\ created_new = FALSE /\ spc = "off"

\* The termination of a child is exercised step by step by SpecTerm only.
\* "helper" is _terminate_process, called by cancel_job; "inline" is the
\* worker's own copy of it in the read loop of the fetch.
Callers == {"helper", "inline"}

IdleTerm ==
    /\ term_child = FALSE /\ term_handle = FALSE
    /\ tpc = [c \in Callers |-> "off"]
    /\ waited = [c \in Callers |-> 0]
    /\ sent = [c \in Callers |-> <<>>]
    /\ expired = [c \in Callers |-> FALSE]
    /\ dead_at_call = [c \in Callers |-> FALSE]
    /\ raised = [c \in Callers |-> FALSE]

\* The registry helpers are applied to arbitrary job ids by SpecRegistry only.
NoCall == [op |-> "none", id |-> "", before |-> {}]

IdleRegistry ==
    /\ reg_table = {} /\ reg_op = NoCall

\* The normalization of the request is exercised by SpecNorm only.
NoRequest ==
    [standalone |-> FALSE, playlist_mode |-> "", merge_playlist |-> FALSE,
     extra |-> FALSE, extra_name |-> "", extraType |-> ""]

IdleNorm ==
    /\ norm_data = NoRequest /\ stored_request = NoRequest
    /\ norm_cancel = FALSE /\ npc = "off"

\* Two workers with one target directory are exercised by SpecPair only.
PairJobs == {"p1", "p2"}
IdlePairJob ==
    [pc |-> "off", stem |-> <<>>, target |-> <<>>, picked |-> "none",
     overwrote |-> "none", final |-> <<>>]

IdlePair ==
    /\ pair_dir = {} /\ pair_canon = <<>>
    /\ pair_job = [j \in PairJobs |-> IdlePairJob]

Init ==
    /\ InitJobs
    /\ ffmpeg_path \in BOOLEAN
    /\ IdlePair
    /\ IdleNorm
    /\ IdleRegistry
    /\ IdleTerm
    /\ IdleResolve
    /\ IdleFolder
    /\ IdlePath
    /\ IdleOut
    /\ IdleProbe
    /\ IdleSubmit

\* ------------------------------------------------------------------ create
\* create(): store record with status queued, registry entry, worker start.
create_job(j, p) ==
    /\ status[j] = "none"
    /\ payload' = [payload EXCEPT ![j] = p]
    /\ status' = [status EXCEPT ![j] = "queued"]
    /\ JOB_CONTROLS' = register_job_control(JOB_CONTROLS, j)
    /\ pc' = [pc EXCEPT ![j] = "start"]
    /\ UNCHANGED <<message, cancelLogs, cancel_event, loc, proc, pipe, files,
                   terminalWrites, cause, unregisters, req>>

\* create() for a submission that passes the validation.
Create(j) ==
    /\ \E m \in BOOLEAN, s \in BOOLEAN :
          create_job(j, [merge_playlist |-> m, standalone |-> s])
    /\ UNCHANGED besideJob

\* ------------------------------------------------------------------ worker
\* fail(message): append the error line and _mark_job_failure.
fail(j, why) ==
    /\ status' = mark_job_failure(status, j)
    /\ terminalWrites' = [terminalWrites EXCEPT ![j] = @ + 1]
    /\ cause' = [cause EXCEPT ![j] = why]

\* raise JobCancelled(): control goes to the except JobCancelled clause.
RaisedTo == "cancelled"

\* Mutant of ReturnTo: the return after fail(...) is missing and the worker
\* goes on to the success write.
ReturnTo_fallthrough == "mark_success"

\* return after fail(...): control goes to the finally clause.
ReturnTo == "fin_clear"

\* _job_status(job_id, "processing", progress=1)
WorkerStart(j) ==
    /\ pc[j] = "start"
    /\ status' = job_status(status, j, "processing")
    /\ pc' = [pc EXCEPT ![j] = "config"]
    /\ UNCHANGED <<message, cancelLogs, JOB_CONTROLS, cancel_event, payload, loc,
                   proc, pipe, files, terminalWrites, cause, unregisters, req>>
    /\ UNCHANGED besideJob

\* load_config(); if not is_configured(config): fail(...); return
LoadConfig(j) ==
    /\ pc[j] = "config"
    /\ \/ /\ pc' = [pc EXCEPT ![j] = "chk_start"]
          /\ UNCHANGED <<status, terminalWrites, cause>>
       \/ /\ fail(j, "config")
          /\ pc' = [pc EXCEPT ![j] = ReturnTo]
    /\ UNCHANGED <<message, cancelLogs, JOB_CONTROLS, cancel_event, payload, loc,
                   proc, pipe, files, unregisters, req>>
    /\ UNCHANGED besideJob

\* The ensure_not_cancelled() calls that only guard the next step.
CheckNext ==
    [chk_start |-> "chk_normalised", chk_normalised |-> "resolve",
     chk_resolved |-> "chk_probe", chk_probe |-> "probe_spawn",
     chk_fetch |-> "fetch_spawn", chk_manifest |-> "manifest",
     chk_merge |-> "merge_spawn"]

ensure_not_cancelled_never(j, next) == next

\* ensure_not_cancelled(): raise JobCancelled when the event is set.
ensure_not_cancelled(j, next) == IF cancel_event[j] THEN RaisedTo ELSE next

Checkpoint(j) ==
    /\ pc[j] \in DOMAIN CheckNext
    /\ pc' = [pc EXCEPT ![j] = ensure_not_cancelled(j, CheckNext[pc[j]])]
    /\ UNCHANGED <<storeVars, JOB_CONTROLS, cancel_event, payload, loc, childVars,
                   files, terminalWrites, cause, unregisters, req>>
    /\ UNCHANGED besideJob

\* Target folder resolution: standalone library path or the Radarr movie
\* folder; each lookup may fail the job.
Resolve(j) ==
    /\ pc[j] = "resolve"
    /\ \/ /\ pc' = [pc EXCEPT ![j] =
                      IF payload[j].standalone THEN "chk_probe" ELSE "chk_resolved"]
          /\ UNCHANGED <<status, terminalWrites, cause>>
       \/ /\ fail(j, "resolve")
          /\ pc' = [pc EXCEPT ![j] = ReturnTo]
    /\ UNCHANGED <<message, cancelLogs, JOB_CONTROLS, cancel_event, payload, loc,
                   proc, pipe, files, unregisters, req>>
    /\ UNCHANGED besideJob

\* if shutil.which("ffmpeg") is None: warn("ffmpeg executable not found; ...");
\* then subprocess.Popen(info_command): the probe child starts, or the launch
\* fails, which is only a warning.
ProbeSpawn(j) ==
    /\ pc[j] = "probe_spawn"
    /\ loc' = [loc EXCEPT ![j].ffmpeg_warned = ~ffmpeg_path]
    /\ \/ /\ proc' = [proc EXCEPT ![j] = [phase |-> "probe", alive |-> TRUE, rc |-> 0]]
          /\ pc' = [pc EXCEPT ![j] = "probe_attach"]
       \/ /\ pc' = [pc EXCEPT ![j] = "probe_clear"]
          /\ UNCHANGED proc
    /\ UNCHANGED <<storeVars, JOB_CONTROLS, cancel_event, payload, pipe,
                   files, terminalWrites, cause, unregisters, req>>
    /\ UNCHANGED besideJob

\* _set_job_process(job_id, <child>) of the three phases
Attach(j) ==
    /\ pc[j] \in {"probe_attach", "fetch_attach", "merge_attach"}
    /\ JOB_CONTROLS' = set_job_process(JOB_CONTROLS, j, proc[j].phase)
    /\ pc' = [pc EXCEPT ![j] =
                CASE pc[j] = "probe_attach" -> "probe_loop"
                  [] pc[j] = "fetch_attach" -> "fetch_loop"
                  [] OTHER -> "merge_wait"]
    /\ UNCHANGED <<storeVars, cancel_event, payload, loc, childVars, files,
                   terminalWrites, cause, unregisters, req>>
    /\ UNCHANGED besideJob

\* One iteration of the multiplexed read loop that leaves the loop: the
\* event is set (terminate, raise), the budget elapsed (warn, terminate,
\* break) or the child exited and the streams are drained (break).
ProbeLoop(j) ==
    /\ pc[j] = "probe_loop"
    /\ \/ /\ cancel_event[j]
          /\ terminate_process(j, "probe")
          /\ loc' = [loc EXCEPT ![j].unwinding = TRUE]
       \/ /\ ~cancel_event[j]
          /\ ChildAlive(j)
          /\ terminate_process(j, "probe")
          /\ UNCHANGED loc
       \/ /\ ~cancel_event[j]
          /\ ~ChildAlive(j)
          /\ UNCHANGED <<proc, pipe, loc>>
    /\ pc' = [pc EXCEPT ![j] = "probe_clear"]
    /\ UNCHANGED <<storeVars, JOB_CONTROLS, cancel_event, payload, files,
                   terminalWrites, cause, unregisters, req>>
    /\ UNCHANGED besideJob

\* The finally clause of a phase: the child has been waited for and
\* _clear_job_process(job_id) runs; a raised JobCancelled continues upwards.
Clear(j) ==
    /\ pc[j] \in {"probe_clear", "fetch_clear", "merge_clear"}
    /\ ~ChildAlive(j)
    /\ JOB_CONTROLS' = clear_job_process(JOB_CONTROLS, j)
    /\ pc' = [pc EXCEPT ![j] =
                IF loc[j].unwinding THEN RaisedTo
                ELSE CASE pc[j] = "probe_clear" -> "probe_post"
                       [] pc[j] = "fetch_clear" -> "fetch_post"
                       [] OTHER -> "merge_post"]
    /\ UNCHANGED <<storeVars, cancel_event, payload, loc, childVars, files,
                   terminalWrites, cause, unregisters, req>>
    /\ UNCHANGED besideJob

\* if cancel_event.is_set(): raise JobCancelled, after the probe; then the
\* naming of the output: standalone folder, working download stem, staging
\* directory and expected pattern; _job_status(..., progress=20).
ProbePost(j) ==
    /\ pc[j] = "probe_post"
    /\ \/ /\ cancel_event[j]
          /\ pc' = [pc EXCEPT ![j] = RaisedTo]
          /\ UNCHANGED <<status, terminalWrites, cause, loc, files>>
       \/ /\ ~cancel_event[j]
          /\ payload[j].standalone
          /\ fail(j, "standalone_folder")
          /\ pc' = [pc EXCEPT ![j] = ReturnTo]
          /\ UNCHANGED <<loc, files>>
       \/ /\ ~cancel_event[j]
          /\ files' = [files EXCEPT ![j].dir = payload[j].merge_playlist]
          /\ loc' = [loc EXCEPT ![j].expected_pattern = TRUE]
          /\ status' = job_status(status, j, "processing")
          /\ pc' = [pc EXCEPT ![j] = "chk_fetch"]
          /\ UNCHANGED <<terminalWrites, cause>>
    /\ UNCHANGED <<message, cancelLogs, JOB_CONTROLS, cancel_event, payload,
                   proc, pipe, unregisters, req>>
    /\ UNCHANGED besideJob

\* subprocess.Popen(command): the fetch child starts, or the launch fails
\* (fail, return).
FetchSpawn(j) ==
    /\ pc[j] = "fetch_spawn"
    /\ \/ /\ proc' = [proc EXCEPT ![j] = [phase |-> "fetch", alive |-> TRUE, rc |-> 0]]
          /\ pc' = [pc EXCEPT ![j] = "fetch_attach"]
          /\ UNCHANGED <<status, terminalWrites, cause>>
       \/ /\ fail(j, "fetch_launch")
          /\ pc' = [pc EXCEPT ![j] = ReturnTo]
          /\ UNCHANGED proc
    /\ UNCHANGED <<message, cancelLogs, JOB_CONTROLS, cancel_event, payload, loc,
                   pipe, files, unregisters, req>>
    /\ UNCHANGED besideJob

\* for raw_line in process.stdout: a line is read. With the event set the
\* worker terminates the child, purges the fragments and raises; otherwise
\* handle_output_line runs and the loop goes on.
FetchLine(j) ==
    /\ pc[j] = "fetch_loop"
    /\ pipe[j] > 0
    /\ IF cancel_event[j]
       THEN /\ \E rc \in ExitCodes :
                 proc' = [proc EXCEPT ![j].alive = FALSE,
                                      ![j].rc = IF proc[j].alive THEN rc ELSE @]
            /\ pipe' = [pipe EXCEPT ![j] = 0]
            /\ files' = [files EXCEPT ![j] =
                           cleanup_temp_files(@, loc[j].expected_pattern)]
            /\ loc' = [loc EXCEPT ![j].unwinding = TRUE]
            /\ pc' = [pc EXCEPT ![j] = "fetch_clear"]
       ELSE /\ pipe' = [pipe EXCEPT ![j] = 0]
            /\ UNCHANGED <<proc, files, loc, pc>>
    /\ UNCHANGED <<storeVars, JOB_CONTROLS, cancel_event, payload,
                   terminalWrites, cause, unregisters, req>>
    /\ UNCHANGED besideJob

\* The stream reaches end-of-file: return_code = process.wait()
FetchEOF(j) ==
    /\ pc[j] = "fetch_loop"
    /\ pipe[j] = 0
    /\ ~ChildAlive(j)
    /\ pc' = [pc EXCEPT ![j] = "fetch_clear"]
    /\ UNCHANGED <<storeVars, JOB_CONTROLS, cancel_event, payload, loc, childVars,
                   files, terminalWrites, cause, unregisters, req>>
    /\ UNCHANGED besideJob

\* Mutant of ffmpeg_required: the tool is looked for whatever the mode.
ffmpeg_required_always(p) == TRUE

\* "if merge_playlist:" around shutil.which("ffmpeg") before the merge
ffmpeg_required(p) == p.merge_playlist

\* After the fetch: a non-zero return code purges the fragments and fails;
\* else downloaded_candidates is globbed; with the event set the candidates
\* and fragments are removed and JobCancelled raised; no candidate fails; a
\* merge job needs ffmpeg.
FetchPost(j) ==
    /\ pc[j] = "fetch_post"
    /\ \/ /\ proc[j].rc # 0
          /\ files' = [files EXCEPT ![j] =
                         cleanup_temp_files(@, loc[j].expected_pattern)]
          /\ fail(j, "fetch_exit")
          /\ pc' = [pc EXCEPT ![j] = ReturnTo]
          /\ UNCHANGED loc
       \/ /\ proc[j].rc = 0
          /\ cancel_event[j]
          /\ files' = [files EXCEPT ![j] =
                         cleanup_temp_files(remove_candidates(@, "files"),
                                            loc[j].expected_pattern)]
          /\ loc' = [loc EXCEPT ![j].cands = "files"]
          /\ pc' = [pc EXCEPT ![j] = RaisedTo]
          /\ UNCHANGED <<status, terminalWrites, cause>>
       \/ /\ proc[j].rc = 0
          /\ ~cancel_event[j]
          /\ files[j].nOut = 0
          /\ fail(j, "no_output")
          /\ pc' = [pc EXCEPT ![j] = ReturnTo]
          /\ UNCHANGED <<loc, files>>
       \/ /\ proc[j].rc = 0
          /\ ~cancel_event[j]
          /\ files[j].nOut > 0
          /\ loc' = [loc EXCEPT ![j].cands = "files"]
          /\ IF ffmpeg_required(payload[j]) /\ ~ffmpeg_path
             THEN /\ fail(j, "no_ffmpeg")
                  /\ pc' = [pc EXCEPT ![j] = ReturnTo]
             ELSE /\ pc' = [pc EXCEPT ![j] =
                              IF payload[j].merge_playlist THEN "chk_manifest"
                              ELSE "rename"]
                  /\ UNCHANGED <<status, terminalWrites, cause>>
          /\ UNCHANGED files
    /\ UNCHANGED <<message, cancelLogs, JOB_CONTROLS, cancel_event, payload,
                   proc, pipe, unregisters, req>>
    /\ UNCHANGED besideJob

\* The concat manifest is written, or the write fails the job.
Manifest(j) ==
    /\ pc[j] = "manifest"
    /\ \/ /\ files' = [files EXCEPT ![j].manifest = TRUE]
          /\ pc' = [pc EXCEPT ![j] = "chk_merge"]
          /\ UNCHANGED <<status, terminalWrites, cause>>
       \/ /\ fail(j, "manifest")
          /\ pc' = [pc EXCEPT ![j] = ReturnTo]
          /\ UNCHANGED files
    /\ UNCHANGED <<message, cancelLogs, JOB_CONTROLS, cancel_event, payload, loc,
                   proc, pipe, unregisters, req>>
    /\ UNCHANGED besideJob

\* subprocess.Popen(merge_command): the merge child starts, or the launch
\* fails (fail, return).
MergeSpawn(j) ==
    /\ pc[j] = "merge_spawn"
    /\ \/ /\ proc' = [proc EXCEPT ![j] = [phase |-> "merge", alive |-> TRUE, rc |-> 0]]
          /\ pc' = [pc EXCEPT ![j] = "merge_attach"]
          /\ UNCHANGED <<status, terminalWrites, cause>>
       \/ /\ fail(j, "merge_launch")
          /\ pc' = [pc EXCEPT ![j] = ReturnTo]
          /\ UNCHANGED proc
    /\ UNCHANGED <<message, cancelLogs, JOB_CONTROLS, cancel_event, payload, loc,
                   pipe, files, unregisters, req>>
    /\ UNCHANGED besideJob

\* merge_process.communicate() returns once the merge child has exited.
MergeWait(j) ==
    /\ pc[j] = "merge_wait"
    /\ ~ChildAlive(j)
    /\ pc' = [pc EXCEPT ![j] = "merge_clear"]
    /\ UNCHANGED <<storeVars, JOB_CONTROLS, cancel_event, payload, loc, childVars,
                   files, terminalWrites, cause, unregisters, req>>
    /\ UNCHANGED besideJob

\* After the merge: with the event set the merged output is removed and
\* JobCancelled raised; a non-zero code or a missing output fails; else the
\* manifest and the segments are removed and the merged file is the only
\* candidate.
MergePost(j) ==
    /\ pc[j] = "merge_post"
    /\ \/ /\ cancel_event[j]
          /\ files' = [files EXCEPT ![j].merged = FALSE]
          /\ pc' = [pc EXCEPT ![j] = RaisedTo]
          /\ UNCHANGED <<status, terminalWrites, cause, loc>>
       \/ /\ ~cancel_event[j]
          /\ (proc[j].rc # 0 \/ ~files[j].merged)
          /\ fail(j, "merge_failed")
          /\ pc' = [pc EXCEPT ![j] = ReturnTo]
          /\ UNCHANGED <<loc, files>>
       \/ /\ ~cancel_event[j]
          /\ proc[j].rc = 0 /\ files[j].merged
          /\ files' = [files EXCEPT ![j].manifest = FALSE, ![j].nOut = 0]
          /\ loc' = [loc EXCEPT ![j].cands = "merged"]
          /\ pc' = [pc EXCEPT ![j] = "merged_chk"]
          /\ UNCHANGED <<status, terminalWrites, cause>>
    /\ UNCHANGED <<message, cancelLogs, JOB_CONTROLS, cancel_event, payload,
                   proc, pipe, unregisters, req>>
    /\ UNCHANGED besideJob

\* The second check after the merge: the candidates (the merged file) are
\* removed and JobCancelled raised.
MergedCheck(j) ==
    /\ pc[j] = "merged_chk"
    /\ IF cancel_event[j]
       THEN /\ files' = [files EXCEPT ![j] = remove_candidates(@, loc[j].cands)]
            /\ pc' = [pc EXCEPT ![j] = RaisedTo]
       ELSE /\ pc' = [pc EXCEPT ![j] = "rename"]
            /\ UNCHANGED files
    /\ UNCHANGED <<storeVars, JOB_CONTROLS, cancel_event, payload, loc, childVars,
                   terminalWrites, cause, unregisters, req>>
    /\ UNCHANGED besideJob

\* The canonical name is chosen and the fetched file moved to it
\* (os.replace), or the rename fails the job.
Rename(j) ==
    /\ pc[j] = "rename"
    /\ \/ /\ files' = [files EXCEPT ![j] =
                         IF loc[j].cands = "merged"
                         THEN [@ EXCEPT !.merged = FALSE, !.final = TRUE]
                         ELSE [@ EXCEPT !.nOut = @ - 1, !.final = TRUE]]
          /\ pc' = [pc EXCEPT ![j] = "renamed_chk"]
          /\ UNCHANGED <<status, terminalWrites, cause>>
       \/ /\ fail(j, "rename")
          /\ pc' = [pc EXCEPT ![j] = ReturnTo]
          /\ UNCHANGED files
    /\ UNCHANGED <<message, cancelLogs, JOB_CONTROLS, cancel_event, payload, loc,
                   proc, pipe, unregisters, req>>
    /\ UNCHANGED besideJob

\* The check after the rename: with the event set the final file is removed
\* and JobCancelled raised; else the intermediate leftovers are removed (kept
\* counts the leftovers that are not intermediate files), the staging
\* directory is removed and progress 100 is stored.
RenamedCheck(j) ==
    /\ pc[j] = "renamed_chk"
    /\ \/ /\ cancel_event[j]
          /\ files' = [files EXCEPT ![j].final = FALSE]
          /\ pc' = [pc EXCEPT ![j] = RaisedTo]
          /\ UNCHANGED status
       \/ /\ ~cancel_event[j]
          /\ \E kept \in 0..files[j].nOut :
                files' = [files EXCEPT ![j] =
                            IF payload[j].merge_playlist /\ @.dir
                            THEN rmtree([@ EXCEPT !.nOut = kept])
                            ELSE [@ EXCEPT !.nOut = kept]]
          /\ status' = job_status(status, j, "processing")
          /\ pc' = [pc EXCEPT ![j] = "mark_success"]
    /\ UNCHANGED <<message, cancelLogs, JOB_CONTROLS, cancel_event, payload, loc,
                   proc, pipe, terminalWrites, cause, unregisters, req>>
    /\ UNCHANGED besideJob

\* log("Success! ..."); _mark_job_success(job_id)
MarkSuccess(j) ==
    /\ pc[j] = "mark_success"
    /\ status' = mark_job_success(status, j)
    /\ terminalWrites' = [terminalWrites EXCEPT ![j] = @ + 1]
    /\ pc' = [pc EXCEPT ![j] = "fin_clear"]
    /\ UNCHANGED <<message, cancelLogs, JOB_CONTROLS, cancel_event, payload, loc,
                   proc, pipe, files, cause, unregisters, req>>
    /\ UNCHANGED besideJob

\* except JobCancelled: fragments, candidates and staging directory are
\* removed, then _mark_job_cancelled(job_id).
handler_cleanup(f, l, merge) ==
    cleanup_playlist_dir(
        remove_candidates(cleanup_temp_files(f, l.expected_pattern), l.cands),
        l.expected_pattern /\ merge)

CancelledHandler(j) ==
    /\ pc[j] = "cancelled"
    /\ files' = [files EXCEPT ![j] =
                   handler_cleanup(@, loc[j], payload[j].merge_playlist)]
    /\ status' = mark_job_cancelled(status, j)
    /\ message' = [message EXCEPT ![j] = "Job cancelled by user."]
    /\ terminalWrites' = [terminalWrites EXCEPT ![j] = @ + 1]
    /\ pc' = [pc EXCEPT ![j] = "fin_clear"]
    /\ UNCHANGED <<cancelLogs, JOB_CONTROLS, cancel_event, payload, loc,
                   proc, pipe, cause, unregisters, req>>
    /\ UNCHANGED besideJob

\* The positions inside the try block where a call other than a write of the
\* job store may raise. The first statement of the block only writes the
\* status, and the writes of the job store are taken to succeed everywhere.
TryPcs ==
    {"config", "resolve", "probe_spawn", "probe_attach", "probe_loop",
     "probe_clear", "probe_post", "fetch_spawn", "fetch_attach", "fetch_loop",
     "fetch_clear", "fetch_post", "manifest", "merge_spawn", "merge_attach",
     "merge_wait", "merge_clear", "merge_post", "merged_chk", "rename",
     "renamed_chk", "mark_success"} \cup DOMAIN CheckNext

\* The positions between the Popen of a phase and the end of its finally
\* clause.
PhasePcs ==
    {"probe_attach", "probe_loop", "probe_clear", "fetch_attach", "fetch_loop",
     "fetch_clear", "merge_attach", "merge_wait", "merge_clear"}

\* An exception other than JobCancelled is raised inside the try block; a
\* child of the current phase has been waited for by the with statement, and
\* the finally clause of the phase has run _clear_job_process on the way up.
Unexpected(j) ==
    /\ pc[j] \in TryPcs
    /\ ~ChildAlive(j)
    /\ pc' = [pc EXCEPT ![j] = "except"]
    /\ JOB_CONTROLS' = IF pc[j] \in PhasePcs
                       THEN clear_job_process(JOB_CONTROLS, j)
                       ELSE JOB_CONTROLS
    /\ UNCHANGED <<storeVars, cancel_event, payload, loc, childVars,
                   files, terminalWrites, cause, unregisters, req>>
    /\ UNCHANGED besideJob

\* except Exception: fail(f"Unexpected error: {exc}")
ExceptHandler(j) ==
    /\ pc[j] = "except"
    /\ fail(j, "unexpected")
    /\ pc' = [pc EXCEPT ![j] = "fin_clear"]
    /\ UNCHANGED <<message, cancelLogs, JOB_CONTROLS, cancel_event, payload, loc,
                   proc, pipe, files, unregisters, req>>
    /\ UNCHANGED besideJob

\* finally: _clear_job_process(job_id)
FinallyClear(j) ==
    /\ pc[j] = "fin_clear"
    /\ JOB_CONTROLS' = clear_job_process(JOB_CONTROLS, j)
    /\ proc' = [proc EXCEPT ![j] = NoProc]
    /\ pipe' = [pipe EXCEPT ![j] = 0]
    /\ pc' = [pc EXCEPT ![j] = "fin_unreg"]
    /\ UNCHANGED <<storeVars, cancel_event, payload, loc, files, terminalWrites,
                   cause, unregisters, req>>
    /\ UNCHANGED besideJob

\* finally: _unregister_job_control(job_id); the worker ends.
FinallyUnregister(j) ==
    /\ pc[j] = "fin_unreg"
    /\ JOB_CONTROLS' = unregister_job_control(JOB_CONTROLS, j)
    /\ unregisters' = [unregisters EXCEPT ![j] =
                         @ + Cardinality({c \in JOB_CONTROLS : c.id = j})]
    /\ loc' = [loc EXCEPT ![j] = NoLocals]
    /\ pc' = [pc EXCEPT ![j] = "done"]
    /\ UNCHANGED <<storeVars, cancel_event, payload, childVars, files,
                   terminalWrites, cause, req>>
    /\ UNCHANGED besideJob

\* ---------------------------------------------------------- child processes
\* The fetch child prints a line; it may have started a fragment or
\* completed a file under the output template.
ChildEmit(j) ==
    /\ proc[j].phase = "fetch" /\ proc[j].alive
    /\ pipe[j] = 0
    /\ pipe' = [pipe EXCEPT ![j] = 1]
    /\ \/ UNCHANGED files
       \/ /\ ~files[j].part
          /\ files' = [files EXCEPT ![j].part = TRUE]
       \/ /\ files[j].part /\ files[j].nOut < MaxSegments
          /\ files' = [files EXCEPT ![j].part = FALSE, ![j].nOut = @ + 1]
    /\ UNCHANGED <<storeVars, JOB_CONTROLS, cancel_event, pc, payload, loc, proc,
                   terminalWrites, cause, unregisters, req>>
    /\ UNCHANGED besideJob

\* The merge child writes (part of) the merged output.
ChildWrite(j) ==
    /\ proc[j].phase = "merge" /\ proc[j].alive
    /\ ~files[j].merged
    /\ files' = [files EXCEPT ![j].merged = TRUE]
    /\ UNCHANGED <<storeVars, JOB_CONTROLS, cancel_event, pc, payload, loc,
                   childVars, terminalWrites, cause, unregisters, req>>
    /\ UNCHANGED besideJob

\* The child of the current phase exits by itself.
ChildExit(j) ==
    /\ proc[j].alive
    /\ \E rc \in ExitCodes :
          /\ proc' = [proc EXCEPT ![j].alive = FALSE, ![j].rc = rc]
          /\ files' = [files EXCEPT ![j].merged =
                         IF proc[j].phase = "merge" /\ rc = 0 THEN TRUE ELSE @]
    /\ UNCHANGED <<storeVars, JOB_CONTROLS, cancel_event, pc, payload, loc, pipe,
                   terminalWrites, cause, unregisters, req>>
    /\ UNCHANGED besideJob

\* -------------------------------------------------------------- cancel_job
\* control.cancel_event.set()
event_set_toggled(ev, j) == [ev EXCEPT ![j] = ~@]

event_set_missed(ev, j) == ev

event_set(ev, j) == [ev EXCEPT ![j] = TRUE]

\* job = jobs_repo.get(job_id): 404 for an unknown job, 409 when the stored
\* status is not queued or processing.
CancelGet(r) ==
    /\ req[r].pc = "idle"
    /\ \E j \in JobIds :
          req' = [req EXCEPT ![r] =
                    IF status[j] = "none"
                    THEN [@ EXCEPT !.pc = "done", !.job = j, !.code = 404]
                    ELSE IF status[j] \notin Active
                    THEN [@ EXCEPT !.pc = "done", !.job = j, !.code = 409]
                    ELSE [@ EXCEPT !.pc = "checked", !.job = j]]
    /\ UNCHANGED <<storeVars, JOB_CONTROLS, cancel_event, workerVars, childVars,
                   files>>
    /\ UNCHANGED besideJob

\* with _JOB_CONTROLS_LOCK: 409 without an entry; else already_requested is
\* read, the event set and the attached process taken.
CancelLocked(r) ==
    /\ req[r].pc = "checked"
    /\ LET j == req[r].job IN
       IF ~HasControl(j)
       THEN /\ req' = [req EXCEPT ![r].pc = "done", ![r].code = 409]
            /\ UNCHANGED cancel_event
       ELSE /\ req' = [req EXCEPT ![r].pc = "locked",
                                  ![r].already = cancel_event[j],
                                  ![r].process = Control(j).process]
            /\ cancel_event' = event_set(cancel_event, j)
    /\ UNCHANGED <<storeVars, JOB_CONTROLS, workerVars, childVars, files>>
    /\ UNCHANGED besideJob

\* if process_to_terminate is not None: _terminate_process(...)
CancelTerminate(r) ==
    /\ req[r].pc = "locked"
    /\ terminate_process(req[r].job, req[r].process)
    /\ req' = [req EXCEPT ![r].pc = "terminated",
                          ![r].signalled = Signals(req[r].job, req[r].process)]
    /\ UNCHANGED <<storeVars, JOB_CONTROLS, cancel_event, workerVars, files>>
    /\ UNCHANGED besideJob

\* The first request appends "Cancellation requested by user." and stores
\* the message "Cancelling..."; every request answers 202.
CancelRespond(r) ==
    /\ req[r].pc = "terminated"
    /\ LET j == req[r].job IN
       IF req[r].already
       THEN UNCHANGED <<cancelLogs, message>>
       ELSE /\ cancelLogs' = [cancelLogs EXCEPT ![j] = @ + 1]
            /\ message' = [message EXCEPT ![j] = "Cancelling..."]
    /\ req' = [req EXCEPT ![r].pc = "done", ![r].code = 202]
    /\ UNCHANGED <<status, JOB_CONTROLS, cancel_event, workerVars, childVars, files>>
    /\ UNCHANGED besideJob

Next ==
    \/ \E j \in JobIds : Create(j)
    \/ \E j \in JobIds : WorkerStart(j)
    \/ \E j \in JobIds : LoadConfig(j)
    \/ \E j \in JobIds : Checkpoint(j)
    \/ \E j \in JobIds : Resolve(j)
    \/ \E j \in JobIds : ProbeSpawn(j)
    \/ \E j \in JobIds : Attach(j)
    \/ \E j \in JobIds : ProbeLoop(j)
    \/ \E j \in JobIds : Clear(j)
    \/ \E j \in JobIds : ProbePost(j)
    \/ \E j \in JobIds : FetchSpawn(j)
    \/ \E j \in JobIds : FetchLine(j)
    \/ \E j \in JobIds : FetchEOF(j)
    \/ \E j \in JobIds : FetchPost(j)
    \/ \E j \in JobIds : Manifest(j)
    \/ \E j \in JobIds : MergeSpawn(j)
    \/ \E j \in JobIds : MergeWait(j)
    \/ \E j \in JobIds : MergePost(j)
    \/ \E j \in JobIds : MergedCheck(j)
    \/ \E j \in JobIds : Rename(j)
    \/ \E j \in JobIds : RenamedCheck(j)
    \/ \E j \in JobIds : MarkSuccess(j)
    \/ \E j \in JobIds : CancelledHandler(j)
    \/ \E j \in JobIds : Unexpected(j)
    \/ \E j \in JobIds : ExceptHandler(j)
    \/ \E j \in JobIds : FinallyClear(j)
    \/ \E j \in JobIds : FinallyUnregister(j)
    \/ \E j \in JobIds : ChildEmit(j)
    \/ \E j \in JobIds : ChildWrite(j)
    \/ \E j \in JobIds : ChildExit(j)
    \/ \E r \in Reqs : CancelGet(r)
    \/ \E r \in Reqs : CancelLocked(r)
    \/ \E r \in Reqs : CancelTerminate(r)
    \/ \E r \in Reqs : CancelRespond(r)

Spec == Init /\ [][Next]_vars

\* One step of the worker thread of job j; the thread runs whenever it is not
\* blocked (an exception out of the blue is not a step it owes).
WorkerStep(j) ==
    \/ WorkerStart(j) \/ LoadConfig(j) \/ Checkpoint(j) \/ Resolve(j)
    \/ ProbeSpawn(j) \/ Attach(j) \/ ProbeLoop(j) \/ Clear(j) \/ ProbePost(j)
    \/ FetchSpawn(j) \/ FetchLine(j) \/ FetchEOF(j) \/ FetchPost(j)
    \/ Manifest(j) \/ MergeSpawn(j) \/ MergeWait(j) \/ MergePost(j)
    \/ MergedCheck(j) \/ Rename(j) \/ RenamedCheck(j) \/ MarkSuccess(j)
    \/ CancelledHandler(j) \/ ExceptHandler(j) \/ FinallyClear(j)
    \/ FinallyUnregister(j)

\* One step of a cancel_job request that has been received.
CancelStep(r) == CancelLocked(r) \/ CancelTerminate(r) \/ CancelRespond(r)

\* The worker thread and the request threads are scheduled fairly; a child
\* that was sent a signal is gone within _terminate_process; a child that
\* was sent none owes neither output nor exit.
SpecLive ==
    /\ Init
    /\ [][Next]_vars
    /\ \A j \in JobIds : WF_vars(WorkerStep(j))
    /\ \A r \in Reqs : WF_vars(CancelStep(r))

TypeOK ==
    /\ status \in [JobIds -> {"none"} \cup Active \cup Terminal]
    /\ cancel_event \in [JobIds -> BOOLEAN]
    /\ \A j \in JobIds : files[j].nOut \in 0..MaxSegments
    /\ \A j \in JobIds : pipe[j] \in 0..1

\* ----------------------------------------------------------- path resolver
\* File names are sequences of characters; an extension and the suffix
\* " (n)" are single elements, as neither holds a character glob treats
\* specially.
\* Largest n of a name "stem (n).ext" already in the directory.
MaxSuffix == 2
\* Largest number of files in the target directory.
MaxFiles == 2

StemSet == {<<"a">>, <<"[", "a", "]">>, <<"a", ".", "a">>}
Exts == {"mp4", "mkv"}
SuffixTokens == <<" (1)", " (2)", " (3)", " (4)", " (5)">>

\* f"{base} ({n})"
WithSuffix(stem, n) == IF n = 0 THEN stem ELSE stem \o <<SuffixTokens[n]>>

\* f"{stem}.{ext}"
FileName(stem, ext) == stem \o <<".", ext>>

FileNames ==
    {FileName(WithSuffix(st, n), e) : st \in StemSet, n \in 0..MaxSuffix, e \in Exts}

\* os.path.splitext(name)[0]: the name up to its last dot
StemOf(name) ==
    LET dots == {i \in 1..Len(name) : name[i] = "."}
    IN IF dots = {} THEN name
       ELSE SubSeq(name, 1, (CHOOSE i \in dots : \A k \in dots : k <= i) - 1)

\* fnmatch.translate: the index of the "]" that closes the class opened at
\* pattern[1] = "[", 0 when there is none (the "[" is then literal); a "]"
\* right after the "[" belongs to the class.
ClassEnd(pattern) ==
    LET from == IF Len(pattern) >= 2 /\ pattern[2] = "]" THEN 3 ELSE 2
        ends == {i \in from..Len(pattern) : pattern[i] = "]"}
    IN IF ends = {} THEN 0 ELSE CHOOSE i \in ends : \A k \in ends : i <= k

\* fnmatch.fnmatch(name, pattern) as glob applies it to a file name: "*"
\* matches any run of characters, "[...]" one character of the class.
RECURSIVE fnmatch(_, _)
fnmatch(name, pattern) ==
    IF pattern = <<>> THEN name = <<>>
    ELSE IF Head(pattern) = "*"
    THEN \E k \in 0..Len(name) :
            fnmatch(SubSeq(name, k + 1, Len(name)), Tail(pattern))
    ELSE IF Head(pattern) = "[" /\ ClassEnd(pattern) # 0
    THEN LET e == ClassEnd(pattern) IN
         /\ name # <<>>
         /\ \E i \in 2..(e - 1) : pattern[i] = Head(name)
         /\ fnmatch(Tail(name), SubSeq(pattern, e + 1, Len(pattern)))
    ELSE /\ name # <<>>
         /\ Head(name) = Head(pattern)
         /\ fnmatch(Tail(name), Tail(pattern))

\* any(os.path.exists(path) for path in glob_paths(join(dir, f"{stem}.*")))
GlobExists(dir, stem) == \E f \in dir : fnmatch(f, stem \o <<".", "*">>)

\* The working download stem: the desired stem unless the glob finds a
\* file, else the first "stem (n)", n = 1, 2, ..., for which it finds none.
RECURSIVE FreeDownloadStem(_, _, _)
FreeDownloadStem(dir, stem, n) ==
    IF ~GlobExists(dir, WithSuffix(stem, n)) THEN WithSuffix(stem, n)
    ELSE FreeDownloadStem(dir, stem, n + 1)

\* The canonical file name: "stem.ext" unless that path exists, else the
\* first "stem (n).ext", n = 1, 2, ..., that does not exist.
RECURSIVE FreeCanonicalName(_, _, _, _)
FreeCanonicalName(dir, stem, ext, n) ==
    IF FileName(WithSuffix(stem, n), ext) \notin dir
    THEN FileName(WithSuffix(stem, n), ext)
    ELSE FreeCanonicalName(dir, stem, ext, n + 1)

InitStem ==
    /\ InitJobs
    /\ dirFiles = {}
    /\ desired \in StemSet
    /\ fetchedExt \in Exts
    /\ chosen = <<>>
    /\ stemPc = "input"
    /\ IdleOut
    /\ IdleProbe
    /\ IdleSubmit
    /\ IdleEnv
    /\ IdlePair
    /\ IdleNorm
    /\ IdleRegistry
    /\ IdleTerm
    /\ IdleResolve
    /\ IdleFolder

\* A file is already present in the target directory.
AddFile ==
    /\ stemPc = "input"
    /\ Cardinality(dirFiles) < MaxFiles
    /\ \E f \in FileNames \ dirFiles : dirFiles' = dirFiles \cup {f}
    /\ UNCHANGED <<desired, fetchedExt, chosen, stemPc>>
    /\ UNCHANGED besidePath

\* First application: the working download stem, chosen before the fetch.
ChooseDownloadStem ==
    /\ stemPc = "input"
    /\ chosen' = FreeDownloadStem(dirFiles, desired, 0)
    /\ stemPc' = "working"
    /\ UNCHANGED <<dirFiles, desired, fetchedExt>>
    /\ UNCHANGED besidePath

\* Second application: the canonical name, chosen before the rename.
ChooseCanonicalName ==
    /\ stemPc = "input"
    /\ chosen' = FreeCanonicalName(dirFiles, desired, fetchedExt, 0)
    /\ stemPc' = "canonical"
    /\ UNCHANGED <<dirFiles, desired, fetchedExt>>
    /\ UNCHANGED besidePath

NextStem == AddFile \/ ChooseDownloadStem \/ ChooseCanonicalName

SpecStem == InitStem /\ [][NextStem]_vars

\* ------------------------------------------------------------ fetch output
\* Number of output lines of the fetch child handled in one behaviour.
MaxLines == 3

\* A line of the fetch child: its leading tag, the digits that stand directly
\* before its first "%" (empty: the line has no percent sign; fractional
\* digits are left out), the marker words it contains ("both": the words
\* error and warning) and its length in characters.
OutputLines ==
    { [prefix |-> "[download]", run |-> <<5>>, mark |-> "none", len |-> 40],
      [prefix |-> "[download]", run |-> <<1, 0, 0>>, mark |-> "none", len |-> 40],
      [prefix |-> "[download]", run |-> <<1, 5, 0>>, mark |-> "none", len |-> 40],
      [prefix |-> "[download]", run |-> <<>>, mark |-> "none", len |-> 40],
      [prefix |-> "[download]", run |-> <<>>, mark |-> "error", len |-> 40],
      [prefix |-> "[ffmpeg]", run |-> <<5>>, mark |-> "none", len |-> 40],
      [prefix |-> "[youtube]", run |-> <<>>, mark |-> "none", len |-> 40],
      [prefix |-> "[youtube]", run |-> <<>>, mark |-> "warning", len |-> 40],
      [prefix |-> "", run |-> <<>>, mark |-> "error", len |-> 40],
      [prefix |-> "", run |-> <<5>>, mark |-> "error", len |-> 40],
      [prefix |-> "", run |-> <<>>, mark |-> "warning", len |-> 40],
      [prefix |-> "", run |-> <<>>, mark |-> "both", len |-> 40],
      [prefix |-> "", run |-> <<>>, mark |-> "none", len |-> 40],
      [prefix |-> "", run |-> <<>>, mark |-> "none", len |-> 301] }

\* A text the application writes itself.
OwnLine(text) == [prefix |-> text, run |-> <<>>, mark |-> "none", len |-> 40]

\* The entry log("Running yt-dlp with explicit output template.") wrote last
\* before the fetch phase.
StartLine == OwnLine("Running yt-dlp")

\* "error" in lowered, "warning" in lowered
contains(line, word) == line.mark \in {word, "both"}

debug_prefixes == {"[debug]", "[info]", "[extractor]", "[metadata]", "[youtube]"}

\* progress_pattern = (\d{1,3}(?:\.\d+)?)% with search(): the group is made of
\* the last three digits, at most, of the run before the percent sign.
progress_pattern(line) ==
    IF Len(line.run) <= 3 THEN line.run
    ELSE SubSeq(line.run, Len(line.run) - 2, Len(line.run))

\* float(match.group(1)), whole part.
RECURSIVE float(_)
float(digits) ==
    IF digits = <<>> THEN 0
    ELSE 10 * float(SubSeq(digits, 1, Len(digits) - 1)) + digits[Len(digits)]

LogEntry(level, line) == [level |-> level, line |-> line]

\* append_job_log: one more entry at the end of the job's log.
append_job_log(l, entry) == Append(l, entry)

\* replace_job_log: "Replace the most recent log entry for a job."
replace_job_log(l, entry) ==
    IF l = <<>> THEN <<entry>> ELSE [l EXCEPT ![Len(l)] = entry]

\* Mutant of Classify: the warning marker is looked for first.
Classify_warning_first(line) ==
    IF contains(line, "warning") THEN "WARNING"
    ELSE IF contains(line, "error") THEN "ERROR"
    ELSE IF line.prefix \in {"[download]", "[ffmpeg]"} THEN ""
    ELSE IF line.prefix \in debug_prefixes THEN "DEBUG"
    ELSE ""

\* The rules of handle_output_line below the progress branch, in order.
Classify(line) ==
    IF contains(line, "error") THEN "ERROR"
    ELSE IF contains(line, "warning") THEN "WARNING"
    ELSE IF line.prefix \in {"[download]", "[ffmpeg]"} THEN ""
    ELSE IF line.prefix \in debug_prefixes THEN "DEBUG"
    ELSE ""

\* handle_output_line(text) for a non-empty line.
handle_output_line(line) ==
    LET match == progress_pattern(line)
        compact_progress_logs == ~debug_enabled
    IN  /\ progress' = IF match # <<>> THEN float(match) ELSE progress
        /\ IF match # <<>> /\ line.prefix = "[download]"
           THEN IF compact_progress_logs
                THEN IF ~progress_log_active
                     THEN /\ logs' = append_job_log(logs, LogEntry("", line))
                          /\ progress_log_active' = TRUE
                     ELSE /\ logs' = replace_job_log(logs, LogEntry("", line))
                          /\ UNCHANGED progress_log_active
                ELSE /\ logs' = append_job_log(logs, LogEntry("", line))
                     /\ UNCHANGED progress_log_active
           ELSE /\ logs' = append_job_log(logs, LogEntry(Classify(line), line))
                /\ UNCHANGED progress_log_active

\* Longest failure summary kept in the message of a failed job.
SummaryLimit == 300

\* Mutant of slice: the summary is kept whole.
slice_whole(line, n) == line

\* failure_summary[:300]
slice(line, n) == [line EXCEPT !.len = IF @ > n THEN n ELSE @]

\* f"Download failed: {failure_summary[:300]}"
DownloadFailed(output_lines) ==
    LET failure_summary ==
            IF output_lines # <<>> THEN output_lines[Len(output_lines)]
            ELSE [OwnLine("Download failed.") EXCEPT !.len = 16]
    IN  <<"Download failed: ", slice(failure_summary, SummaryLimit)>>

\* The fetch phase starts: progress 20 is stored, the flag is cleared.
InitOut ==
    /\ InitJobs
    /\ IdlePath
    /\ fed = <<>>
    /\ logs = <<LogEntry("", StartLine)>>
    /\ progress = 20
    /\ progress_log_active = FALSE
    /\ debug_enabled \in BOOLEAN
    /\ fpc = "read"
    /\ fetch_cancel = FALSE
    /\ return_code = 0
    /\ job_message = <<>>
    /\ IdleProbe
    /\ IdleSubmit
    /\ IdleEnv
    /\ IdlePair
    /\ IdleNorm
    /\ IdleRegistry
    /\ IdleTerm
    /\ IdleResolve
    /\ IdleFolder

\* "for raw_line in process.stdout: if cancel_event.is_set(): ...": a line was
\* read; with the event set the worker acknowledges, stops the child and
\* raises JobCancelled.
FetchOutputCheck ==
    /\ fpc = "read"
    /\ Len(fed) < MaxLines
    /\ IF fetch_cancel
       THEN /\ logs' = append_job_log(logs, LogEntry("", OwnLine("Cancellation acknowledged")))
            /\ fpc' = "cancelled"
       ELSE /\ fpc' = "handle"
            /\ UNCHANGED logs
    /\ UNCHANGED <<fed, progress, progress_log_active, debug_enabled, fetch_cancel,
                   return_code, job_message>>
    /\ UNCHANGED besideOut

\* handle_output_line(line) for the line read, the event having been clear.
FetchOutputLine ==
    /\ fpc = "handle"
    /\ \E line \in OutputLines :
          /\ handle_output_line(line)
          /\ fed' = Append(fed, line)
    /\ fpc' = "read"
    /\ UNCHANGED <<debug_enabled, fetch_cancel, return_code, job_message>>
    /\ UNCHANGED besideOut

\* The stream is at its end: return_code = process.wait()
FetchOutputEnd ==
    /\ fpc = "read"
    /\ \E rc \in ExitCodes : return_code' = rc
    /\ fpc' = "post"
    /\ UNCHANGED <<fed, logs, progress, progress_log_active, debug_enabled,
                   fetch_cancel, job_message>>
    /\ UNCHANGED besideOut

\* if return_code != 0: log("yt-dlp exited with code ..."), fail(...), return;
\* else the worker goes on to locate the fetched files.
FetchOutputPost ==
    /\ fpc = "post"
    /\ IF return_code # 0
       THEN /\ logs' = append_job_log(
                          append_job_log(logs, LogEntry("", OwnLine("yt-dlp exited"))),
                          LogEntry("ERROR", DownloadFailed(fed)[2]))
            /\ job_message' = DownloadFailed(fed)
            /\ fpc' = "failed"
       ELSE /\ fpc' = "locate"
            /\ UNCHANGED <<logs, job_message>>
    /\ UNCHANGED <<fed, progress, progress_log_active, debug_enabled, fetch_cancel,
                   return_code>>
    /\ UNCHANGED besideOut

\* cancel_job while the fetch runs: the event is set,
\* append_job_log(job_id, "Cancellation requested by user.") and the message
\* "Cancelling..." are written.
FetchCancel ==
    /\ ~fetch_cancel
    /\ fpc \in {"read", "handle", "post"}
    /\ fetch_cancel' = TRUE
    /\ logs' = append_job_log(logs, LogEntry("", OwnLine("Cancellation requested")))
    /\ job_message' = <<"Cancelling...">>
    /\ UNCHANGED <<fed, progress, progress_log_active, debug_enabled, fpc,
                   return_code>>
    /\ UNCHANGED besideOut

NextOut ==
    \/ FetchOutputCheck
    \/ FetchOutputLine
    \/ FetchOutputEnd
    \/ FetchOutputPost
    \/ FetchCancel

SpecOut == InitOut /\ [][NextOut]_vars

\* ----------------------------------------------------------- metadata probe
\* Number of chunks the probe child writes in one behaviour.
MaxProbeChunks == 2
\* METADATA_FETCH_TIMEOUT_SECONDS counted in clock ticks.
TimeoutTicks == 2

Streams == {"stdout", "stderr"}

\* What a chunk (a line) of the child's stdout holds: the JSON object of a
\* video, one of a playlist container, a JSON
\* object with a field of a type the code does not expect (say a width that
\* is not a number), text that is not JSON, or the first or the second half
\* of a JSON object printed over two lines.
ChunkKinds == {"video", "playlist", "odd", "junk", "head", "tail"}
ObjectKinds == {"video", "playlist", "odd"}
\* entry.get("_type") == "playlist"
Containers_none == {}

Containers == {"playlist"}

\* _drain_events: every registered stream that is readable gives one chunk
\* (read1), or is unregistered and closed when it is at end of stream.
drain_events(d, open) ==
    [sel |-> d.sel \ {st \in d.sel : d.buf[st] = <<>> /\ st \notin open},
     buf |-> [st \in Streams |->
                IF st \in d.sel /\ d.buf[st] # <<>> THEN Tail(d.buf[st])
                ELSE d.buf[st]],
     chunks |-> [st \in Streams |->
                   IF st \in d.sel /\ d.buf[st] # <<>>
                   THEN Append(d.chunks[st], Head(d.buf[st]))
                   ELSE d.chunks[st]]]

Drained == drain_events([sel |-> selector, buf |-> buf, chunks |-> chunks], wr)

\* _terminate_process(info_process): terminate, wait, kill; the child is gone
\* and the write ends it held are closed, those its descendants hold stay.
probe_terminate ==
    IF info_process.alive
    THEN /\ info_process' = [alive |-> FALSE, rc |-> -15]
         /\ \E held \in SUBSET wr : wr' = held
    ELSE UNCHANGED <<info_process, wr>>

InitProbe ==
    /\ InitJobs
    /\ IdlePath
    /\ IdleOut
    /\ ppc = "spawn"
    /\ info_process = [alive |-> FALSE, rc |-> 0]
    /\ wr = {} /\ selector = {}
    /\ buf = [st \in Streams |-> <<>>]
    /\ chunks = [st \in Streams |-> <<>>]
    /\ elapsed = 0
    /\ metadata_timed_out = FALSE /\ info_returncode = <<>> /\ probeWarnings = 0
    /\ info_payload = "None" /\ resolved_format = "empty"
    /\ descriptive \in {"", "custom"}
    /\ probe_cancel = FALSE
    /\ IdleSubmit
    /\ IdleEnv
    /\ IdlePair
    /\ IdleNorm
    /\ IdleRegistry
    /\ IdleTerm
    /\ IdleResolve
    /\ IdleFolder

\* subprocess.Popen(info_command), _set_job_process, both streams registered;
\* or the launch raises and warn("Failed to query format details ...").
InfoSpawn ==
    /\ ppc = "spawn"
    /\ \/ /\ info_process' = [alive |-> TRUE, rc |-> 0]
          /\ wr' = Streams
          /\ selector' = Streams
          /\ ppc' = "loop"
          /\ UNCHANGED probeWarnings
       \/ /\ probeWarnings' = probeWarnings + 1
          /\ ppc' = "check"
          /\ UNCHANGED <<info_process, wr, selector>>
    /\ UNCHANGED <<buf, chunks, elapsed, metadata_timed_out, info_returncode,
                   info_payload, resolved_format, descriptive, probe_cancel>>
    /\ UNCHANGED besideProbe

\* if METADATA_FETCH_TIMEOUT_SECONDS: elapsed >= METADATA_FETCH_TIMEOUT_SECONDS
budget_elapsed_off(e) == FALSE

budget_elapsed(e) == e >= TimeoutTicks

\* One iteration of the read loop "while True".
InfoLoop ==
    /\ ppc = "loop"
    /\ IF probe_cancel
       THEN /\ probe_terminate
            /\ ppc' = "finally_raise"
            /\ UNCHANGED <<buf, selector, chunks, metadata_timed_out, probeWarnings>>
       ELSE IF budget_elapsed(elapsed)
       THEN /\ metadata_timed_out' = TRUE
            /\ probeWarnings' = probeWarnings + 1
            /\ probe_terminate
            /\ ppc' = "finally"
            /\ UNCHANGED <<buf, selector, chunks>>
       ELSE LET d1 == Drained
                d2 == IF d1.sel # {} /\ ~info_process.alive
                      THEN drain_events(d1, wr) ELSE d1
            IN  /\ selector' = d2.sel /\ buf' = d2.buf /\ chunks' = d2.chunks
                /\ ppc' = IF d2.sel = {} /\ ~info_process.alive
                          THEN "finally" ELSE "loop"
                /\ UNCHANGED <<info_process, wr, metadata_timed_out, probeWarnings>>
    /\ UNCHANGED <<elapsed, info_returncode, info_payload, resolved_format,
                   descriptive, probe_cancel>>
    /\ UNCHANGED besideProbe

\* The clock advances while the loop runs.
InfoTick ==
    /\ ppc = "loop"
    /\ elapsed < TimeoutTicks
    /\ elapsed' = elapsed + 1
    /\ UNCHANGED <<ppc, info_process, probeIO, probeRes, probe_cancel>>
    /\ UNCHANGED besideProbe

\* finally: the last non-blocking _drain_events and selector.close().
InfoFinally ==
    /\ ppc \in {"finally", "finally_raise"}
    /\ selector' = {} /\ buf' = Drained.buf /\ chunks' = Drained.chunks
    /\ ppc' = IF ppc = "finally" THEN "wait" ELSE "cancelled"
    /\ UNCHANGED <<info_process, wr, elapsed, probeRes, probe_cancel>>
    /\ UNCHANGED besideProbe

\* info_returncode = info_process.wait(timeout=5), with _terminate_process when
\* the wait expires; then the block is left and _clear_job_process runs.
InfoWait ==
    /\ ppc = "wait"
    /\ probe_terminate
    /\ info_returncode' = <<info_process'.rc>>
    /\ ppc' = "check"
    /\ UNCHANGED <<buf, selector, chunks, elapsed, metadata_timed_out,
                   probeWarnings, info_payload, resolved_format, descriptive,
                   probe_cancel>>
    /\ UNCHANGED besideProbe

\* if cancel_event.is_set(): raise JobCancelled()
InfoCheck ==
    /\ ppc = "check"
    /\ ppc' = IF probe_cancel THEN "cancelled" ELSE "post"
    /\ UNCHANGED <<info_process, probeIO, elapsed, probeRes, probe_cancel>>
    /\ UNCHANGED besideProbe

\* The JSON objects parsed from info_stdout, line by line; when there is
\* none, info_stdout parsed as one document.
info_entries ==
    LET by_line == SelectSeq(chunks["stdout"], LAMBDA k : k \in ObjectKinds)
    IN  IF by_line # <<>> THEN by_line
        ELSE IF chunks["stdout"] = <<"head", "tail">> THEN <<"document">>
        ELSE <<>>

\* The last entry that is not a container, else the last entry, else None.
RECURSIVE preferred_entry(_)
preferred_entry(entries) ==
    IF entries = <<>> THEN "None"
    ELSE IF entries[Len(entries)] \notin Containers THEN entries[Len(entries)]
    ELSE IF preferred_entry(SubSeq(entries, 1, Len(entries) - 1))
              \notin Containers \cup {"None"}
         THEN preferred_entry(SubSeq(entries, 1, Len(entries) - 1))
         ELSE entries[Len(entries)]

\* _resolve_requested_format(info_payload): the summary of the selected
\* entry; int(width) raises on a field that is not a number and the summary
\* stays empty.
resolve_requested_format(entry) ==
    IF entry \in {"None", "odd"} THEN "empty" ELSE "summary"

\* After the probe: a non-zero exit that is not a timeout is warned about;
\* otherwise info_stdout is parsed and the format summary resolved; an
\* exception raised there reaches "except Exception" and fails the job.
InfoParse ==
    /\ ppc = "post"
    /\ IF info_returncode \notin {<<0>>, <<>>} /\ ~metadata_timed_out
       THEN /\ probeWarnings' = probeWarnings + 1
            /\ UNCHANGED <<info_payload, resolved_format>>
            /\ ppc' = "name"
       ELSE /\ info_payload' = preferred_entry(info_entries)
            /\ resolved_format' = resolve_requested_format(preferred_entry(info_entries))
            /\ ppc' = IF preferred_entry(info_entries) = "odd" THEN "failed" ELSE "name"
            /\ UNCHANGED probeWarnings
    /\ UNCHANGED <<info_process, probeIO, elapsed, metadata_timed_out,
                   info_returncode, descriptive, probe_cancel>>
    /\ UNCHANGED besideProbe

\* The name of the output: the custom name, else the title the metadata
\* gives, else default_label with a warning.
InfoName ==
    /\ ppc = "name"
    /\ descriptive' = IF descriptive # "" THEN descriptive
                      ELSE IF info_payload \in {"video", "playlist", "document"}
                      THEN "title"
                      ELSE "default_label"
    /\ ppc' = "fetch"
    /\ UNCHANGED <<info_process, probeIO, elapsed, metadata_timed_out,
                   info_returncode, probeWarnings, info_payload, resolved_format,
                   probe_cancel>>
    /\ UNCHANGED besideProbe

\* The child writes a chunk to one of its streams.
InfoWrite ==
    /\ info_process.alive
    /\ Len(buf["stdout"]) + Len(buf["stderr"])
         + Len(chunks["stdout"]) + Len(chunks["stderr"]) < MaxProbeChunks
    /\ \E st \in wr :
          \E k \in IF st = "stdout" THEN ChunkKinds ELSE {"text"} :
             buf' = [buf EXCEPT ![st] = Append(@, k)]
    /\ UNCHANGED <<ppc, info_process, wr, selector, chunks, elapsed, probeRes,
                   probe_cancel>>
    /\ UNCHANGED besideProbe

\* The write end of a stream is closed by the last process that held it.
InfoClose ==
    /\ \E st \in wr : wr' = wr \ {st}
    /\ UNCHANGED <<ppc, info_process, buf, selector, chunks, elapsed, probeRes,
                   probe_cancel>>
    /\ UNCHANGED besideProbe

\* The child exits by itself.
InfoExit ==
    /\ info_process.alive
    /\ \E rc \in ExitCodes : info_process' = [alive |-> FALSE, rc |-> rc]
    /\ \E held \in SUBSET wr : wr' = held
    /\ UNCHANGED <<ppc, buf, selector, chunks, elapsed, probeRes, probe_cancel>>
    /\ UNCHANGED besideProbe

\* cancel_job during the probe: the event is set and the attached child
\* terminated.
InfoCancel ==
    /\ ~probe_cancel
    /\ ppc \in {"spawn", "loop", "finally", "wait", "check", "post"}
    /\ probe_cancel' = TRUE
    /\ IF ppc \in {"loop", "finally", "wait"}
       THEN probe_terminate
       ELSE UNCHANGED <<info_process, wr>>
    /\ UNCHANGED <<ppc, buf, selector, chunks, elapsed, probeRes>>
    /\ UNCHANGED besideProbe

NextProbe ==
    \/ InfoSpawn
    \/ InfoLoop
    \/ InfoTick
    \/ InfoFinally
    \/ InfoWait
    \/ InfoCheck
    \/ InfoParse
    \/ InfoName
    \/ InfoWrite
    \/ InfoClose
    \/ InfoExit
    \/ InfoCancel

SpecProbe == InitProbe /\ [][NextProbe]_vars

\* The child writes a line that is not JSON to one of its streams.
InfoWriteText ==
    /\ info_process.alive
    /\ Len(buf["stdout"]) + Len(buf["stderr"])
         + Len(chunks["stdout"]) + Len(chunks["stderr"]) < MaxProbeChunks
    /\ \E st \in wr :
          buf' = [buf EXCEPT ![st] = Append(@, IF st = "stdout" THEN "junk" ELSE "text")]
    /\ UNCHANGED <<ppc, info_process, wr, selector, chunks, elapsed, probeRes,
                   probe_cancel>>
    /\ UNCHANGED besideProbe

\* The probe with the child's output left uninterpreted.
NextProbeLive ==
    \/ InfoSpawn
    \/ InfoLoop
    \/ InfoTick
    \/ InfoFinally
    \/ InfoWait
    \/ InfoCheck
    \/ InfoParse
    \/ InfoName
    \/ InfoWriteText
    \/ InfoClose
    \/ InfoExit
    \/ InfoCancel

\* The worker thread runs and the clock advances; the child and the holders
\* of its streams owe nothing.
SpecProbeLive ==
    /\ InitProbe
    /\ [][NextProbeLive]_vars
    /\ WF_vars(InfoLoop)
    /\ WF_vars(InfoTick)

\* ------------------------------------------------------- create: validation
\* The request body: the URL by its scheme and host (both empty: no URL;
\* host "[": urlparse raises ValueError), and the fields the validation reads.
Urls ==
    {EmptyUrl, [scheme |-> "", host |-> "youtube.com"]}
        \cup [scheme : {"https", "ftp"}, host : {"youtube.com", "example.com", "["}]
Submissions ==
    [yturl : Urls,
     movieId : {"", "tt1"},
     standalone : BOOLEAN,
     playlist_mode : {"", "merge", "both"},
     extra : BOOLEAN,
     extra_name : {"", "Bonus"}]

ALLOWED_PLAYLIST_MODES == {"single", "merge"}

allowed_hosts ==
    {"youtube.com", "www.youtube.com", "m.youtube.com", "youtu.be", "vimeo.com",
     "www.vimeo.com", "player.vimeo.com", "dailymotion.com",
     "www.dailymotion.com", "dai.ly", "www.dai.ly"}

\* _validate_request_urls: the errors it reports.
validate_request_urls(data) ==
    LET scheme == IF data.yturl.scheme = "" THEN "https" ELSE data.yturl.scheme
    IN  IF data.yturl = EmptyUrl THEN {"Video URL is required."}
        ELSE IF data.yturl.host = "[" THEN {"Please provide a valid video URL."}
        ELSE IF scheme \notin {"http", "https"} \/ data.yturl.host \notin allowed_hosts
        THEN {"Only YouTube, Vimeo, or Dailymotion URLs are supported."}
        ELSE {}

\* _validate_movie_selection: the errors it reports.
validate_movie_selection_skipped(data) == {}

validate_movie_selection(data) ==
    IF data.movieId = "" THEN {"No movie selected."} ELSE {}

\* _resolve_playlist_mode: the mode and the errors it reports.
resolve_playlist_mode(data) ==
    LET mode == IF data.playlist_mode = "" THEN "single" ELSE data.playlist_mode
    IN  IF mode \notin ALLOWED_PLAYLIST_MODES
        THEN [mode |-> "single", errors |-> {"Invalid playlist handling option selected."}]
        ELSE [mode |-> mode, errors |-> {}]

\* _resolve_extra_settings: the errors it reports.
resolve_extra_settings(data) ==
    IF data.extra /\ data.extra_name = ""
    THEN {"Extra name is required when storing in a subfolder."}
    ELSE {}

\* _prepare_create_payload: the payload and every error reported.
prepare_create_payload(data) ==
    [payload |-> [merge_playlist |-> resolve_playlist_mode(data).mode = "merge",
                  standalone |-> data.standalone],
     errors |-> resolve_playlist_mode(data).errors
                \cup resolve_extra_settings(data)
                \cup (IF data.standalone THEN {} ELSE validate_movie_selection(data))
                \cup validate_request_urls(data)]

InitCreate ==
    /\ InitJobs
    /\ IdlePath
    /\ IdleOut
    /\ IdleProbe
    /\ submitted = NoSubmission
    /\ response = 0
    /\ IdleEnv
    /\ IdlePair
    /\ IdleNorm
    /\ IdleRegistry
    /\ IdleTerm
    /\ IdleResolve
    /\ IdleFolder

\* create(): 503 when the application is not configured, 400 when the
\* validation reported an error, else the job is created and 202 answered.
Submit ==
    /\ \E data \in Submissions, configured \in BOOLEAN :
          /\ submitted' = data
          /\ IF ~configured
             THEN response' = 503 /\ UNCHANGED jobVars
             ELSE IF prepare_create_payload(data).errors # {}
             THEN response' = 400 /\ UNCHANGED jobVars
             ELSE /\ \E j \in JobIds :
                        create_job(j, prepare_create_payload(data).payload)
                  /\ response' = 202
    /\ UNCHANGED besideSubmit

NextCreate == Submit

SpecCreate == InitCreate /\ [][NextCreate]_vars

\* ------------------------------------------------------------ movie folder
\* Largest number of directories on disk before the call.
MaxDirs == 3
\* Largest number of path-override rules in the configuration.
MaxOverrides == 2

\* The directories the resolution can look at.
DirUniverse ==
    { <<"movies">>, <<"movies", "hd">>, <<"movies", "hd", "Film">>,
      <<"a">>, <<"a", "hd">>, <<"a", "hd", "Film">>, <<"a", "Film">>, <<"a", "movies">>,
      <<"b">>, <<"b", "Film">>,
      <<"lib">>, <<"lib", "Film">>, <<"lib", "movies">> }

\* os.path.dirname, os.path.basename
dirname(path) == IF path = <<>> THEN <<>> ELSE SubSeq(path, 1, Len(path) - 1)
basename(path) == IF path = <<>> THEN "" ELSE path[Len(path)]

\* os.path.isdir
isdir(D, path) == path = <<>> \/ path \in D

\* Sets of directories in which every directory has its parent.
DirSets ==
    {D \in SUBSET DirUniverse :
        /\ Cardinality(D) <= MaxDirs
        /\ \A d \in D : isdir(D, dirname(d))}

\* The override rules of the configuration: remote prefix => local prefix.
OverrideRules ==
    { [remote |-> <<"movies">>, local |-> <<"a">>],
      [remote |-> <<"movies", "hd">>, local |-> <<"b">>],
      [remote |-> <<"other">>, local |-> <<"lib">>] }

\* normalize_path_overrides: a list without duplicates.
OverrideLists ==
    UNION { {o \in [1..n -> OverrideRules] : \A i, k \in 1..n : o[i] = o[k] => i = k}
            : n \in 0..MaxOverrides }

\* file_paths of the configuration.
RootLists ==
    { <<>>, << <<"lib">> >>, << <<"lib">>, <<"a">> >>, << <<"a">>, <<"lib">> >> }

\* Mutant of ensure_candidate: the candidate is created whether or not the
\* base directory exists.
ensure_candidate_any_base(D, candidate, base_dir, args) ==
    IF isdir(D, candidate) THEN [path |-> candidate, created |-> FALSE]
    ELSE IF ~args.create_if_missing THEN [path |-> NoPath, created |-> FALSE]
    ELSE IF ~args.writable THEN [path |-> NoPath, created |-> FALSE]
    ELSE [path |-> candidate, created |-> TRUE]

\* ensure_candidate(candidate, base_dir): the candidate when it is a
\* directory, or when creation is allowed, its base is a directory and
\* os.makedirs does not raise OSError (args.writable); else None.
ensure_candidate(D, candidate, base_dir, args) ==
    IF isdir(D, candidate) THEN [path |-> candidate, created |-> FALSE]
    ELSE IF ~args.create_if_missing THEN [path |-> NoPath, created |-> FALSE]
    ELSE IF ~isdir(D, base_dir) THEN [path |-> NoPath, created |-> FALSE]
    ELSE IF ~args.writable THEN [path |-> NoPath, created |-> FALSE]
    ELSE [path |-> candidate, created |-> TRUE]

\* normalized_original == remote_normalized, or
\* normalized_original.startswith(remote_normalized + "/")
startswith(path, remote) ==
    Len(remote) <= Len(path) /\ SubSeq(path, 1, Len(remote)) = remote

\* The candidate an override rule rewrites the path to, and its base.
override_candidate(path, override) ==
    LET remainder == SubSeq(path, Len(override.remote) + 1, Len(path))
        candidate == IF remainder # <<>> THEN override.local \o remainder
                     ELSE override.local
    IN  [candidate |-> candidate,
         base |-> IF remainder # <<>> THEN dirname(candidate) ELSE override.local]

\* _resolve_override_target: the rules in the order of the configuration,
\* from rule i on.
RECURSIVE resolve_override_target(_, _, _, _)
resolve_override_target(D, path, args, i) ==
    IF i > Len(args.path_overrides) THEN NoResult
    ELSE LET override == args.path_overrides[i]
         IN  IF ~startswith(path, override.remote)
             THEN resolve_override_target(D, path, args, i + 1)
             ELSE LET c == override_candidate(path, override)
                      r == ensure_candidate(D, c.candidate, c.base, args)
                  IN  IF r.path # NoPath
                      THEN [path |-> r.path, created |-> r.created,
                            via |-> "override", rule |-> i]
                      ELSE resolve_override_target(D, path, args, i + 1)

\* _resolve_library_target: os.path.join(base_path, folder_name) for the
\* library roots in their order, from root i on.
RECURSIVE resolve_library_target(_, _, _, _)
resolve_library_target(D, folder_name, args, i) ==
    IF i > Len(args.file_paths) THEN NoResult
    ELSE LET base_path == args.file_paths[i]
             r == ensure_candidate(D, Append(base_path, folder_name), base_path, args)
         IN  IF r.path # NoPath
             THEN [path |-> r.path, created |-> r.created, via |-> "library", rule |-> i]
             ELSE resolve_library_target(D, folder_name, args, i + 1)

\* resolve_movie_path(original_path, config, create_if_missing=...)
resolve_movie_path(D, args) ==
    LET normalized_path == args.original_path
        direct == IF isdir(D, normalized_path)
                  THEN [path |-> normalized_path, created |-> FALSE]
                  ELSE ensure_candidate(D, normalized_path, dirname(normalized_path), args)
        rewritten == resolve_override_target(D, normalized_path, args, 1)
        folder_name == basename(normalized_path)
    IN  IF args.original_path = NoPath THEN NoResult
        ELSE IF direct.path # NoPath
        THEN [path |-> direct.path, created |-> direct.created,
              via |-> "recorded", rule |-> 0]
        ELSE IF rewritten.path # NoPath THEN rewritten
        ELSE IF folder_name # "" THEN resolve_library_target(D, folder_name, args, 1)
        ELSE NoResult

\* The worker holds the movie's recorded path and the configuration.
InitResolve ==
    /\ InitJobs
    /\ IdlePath
    /\ IdleOut
    /\ IdleProbe
    /\ IdleSubmit
    /\ IdleEnv
    /\ IdlePair
    /\ IdleNorm
    /\ IdleRegistry
    /\ IdleTerm
    /\ IdleFolder
    /\ dirs \in DirSets
    /\ resolve_args \in
          [original_path : {NoPath, <<"movies">>, <<"movies", "hd", "Film">>},
           path_overrides : OverrideLists,
           file_paths : RootLists,
           create_if_missing : BOOLEAN,
           writable : BOOLEAN]
    /\ resolved = NoResult
    /\ rpc = "input"

\* resolved_path, created_folder = resolve_movie_path(movie_path, config, ...);
\* if resolved_path is None: fail("Movie folder not found on disk: ...").
ResolveMoviePath ==
    /\ rpc = "input"
    /\ resolved' = resolve_movie_path(dirs, resolve_args)
    /\ dirs' = IF resolved'.created THEN dirs \cup {resolved'.path} ELSE dirs
    /\ rpc' = IF resolved'.path = NoPath THEN "failed" ELSE "resolved"
    /\ UNCHANGED resolve_args
    /\ UNCHANGED besideResolve

NextResolve == ResolveMoviePath

SpecResolve == InitResolve /\ [][NextResolve]_vars

\* ------------------------------------------------------- standalone folder
\* Largest n of a name "name (n)" that exists before the first job.
MaxTaken == 2
\* Number of standalone jobs that run one after the other with the same
\* folder name.
MaxFolderJobs == 2
\* ticks of the five-second wait of a termination
GraceTicks == 2

\* What a name under the library root is: nothing, a regular file, or a
\* directory (job: the job that created it, 0 when it was there before).
Absent == [kind |-> "absent", job |-> 0]
File == [kind |-> "file", job |-> 0]
Dir(k) == [kind |-> "dir", job |-> k]

\* The names "name", "name (1)", ... by their n.
FolderNames == 0..(MaxTaken + 1)

\* The first n from suffix on whose name does not exist or is a directory.
RECURSIVE free_folder(_, _)
free_folder(e, suffix) ==
    IF suffix \notin DOMAIN e THEN suffix
    ELSE IF e[suffix].kind = "absent" \/ e[suffix].kind = "dir" THEN suffix
    ELSE free_folder(e, suffix + 1)

\* final_folder_path after "if os.path.isfile(final_folder_path): ..."
standalone_folder(e) == IF e[0].kind = "file" THEN free_folder(e, 1) ELSE 0

\* The library root before the first job: the last name is free.
InitFolder ==
    /\ InitJobs
    /\ IdlePath
    /\ IdleOut
    /\ IdleProbe
    /\ IdleSubmit
    /\ IdleEnv
    /\ IdlePair
    /\ IdleNorm
    /\ IdleRegistry
    /\ IdleTerm
    /\ IdleResolve
    /\ root_entries \in {e \in [FolderNames -> {Absent, File, Dir(0)}] :
                      e[MaxTaken + 1] = Absent}
    /\ sjob = 1
    /\ final_folder_path = 0
    /\ created_new = FALSE
    /\ spc = "choose"

\* final_folder_path = os.path.join(standalone_base_path, standalone_folder_name)
\* and the loop over the suffixes when that path is a file.
FolderChoose ==
    /\ spc = "choose"
    /\ final_folder_path' = standalone_folder(root_entries)
    /\ created_new' = FALSE
    /\ spc' = "make"
    /\ UNCHANGED <<root_entries, sjob>>
    /\ UNCHANGED besideFolder

\* if not os.path.isdir(final_folder_path): os.makedirs(...), created_new =
\* True, or OSError fails the job; an existing directory is taken as it is.
FolderMake ==
    /\ spc = "make"
    /\ IF root_entries[final_folder_path].kind = "dir"
       THEN /\ spc' = "done"
            /\ UNCHANGED <<root_entries, created_new>>
       ELSE \/ /\ root_entries' = [root_entries EXCEPT ![final_folder_path] = Dir(sjob)]
               /\ created_new' = TRUE
               /\ spc' = "done"
            \/ /\ spc' = "failed"
               /\ UNCHANGED <<root_entries, created_new>>
    /\ UNCHANGED <<sjob, final_folder_path>>
    /\ UNCHANGED besideFolder

\* The next standalone job with the same folder name starts.
FolderNextJob ==
    /\ spc \in {"done", "failed"}
    /\ sjob < MaxFolderJobs
    /\ sjob' = sjob + 1
    /\ final_folder_path' = 0
    /\ created_new' = FALSE
    /\ spc' = "choose"
    /\ UNCHANGED root_entries
    /\ UNCHANGED besideFolder

NextFolder == FolderChoose \/ FolderMake \/ FolderNextJob

SpecFolder == InitFolder /\ [][NextFolder]_vars


\* ------------------------------------------------------- termination, stepwise
\* _terminate_process and the worker's inline copy of it, one call of the
\* subprocess API per step, both acting on the same child: cancel_job
\* terminates the process it read from the registry while the worker, seeing
\* the event, terminates the process it spawned.
InitTerm ==
    /\ term_child \in BOOLEAN
    /\ term_handle \in BOOLEAN
    /\ tpc \in [Callers -> {"off", "call"}]
    /\ waited = [c \in Callers |-> 0]
    /\ sent = [c \in Callers |-> <<>>]
    /\ expired = [c \in Callers |-> FALSE]
    /\ dead_at_call = [c \in Callers |-> FALSE]
    /\ raised = [c \in Callers |-> FALSE]
    /\ InitJobs
    /\ IdleEnv
    /\ IdlePair
    /\ IdleNorm
    /\ IdleRegistry
    /\ IdleResolve
    /\ IdleFolder
    /\ IdlePath
    /\ IdleOut
    /\ IdleProbe
    /\ IdleSubmit

\* the exception handlers around each call of the two copies
Handled(c, call) ==
    CASE call = "terminate" -> {"OSError"}
      [] call = "wait"      -> {"TimeoutExpired"}
      [] call = "kill"      -> {"OSError"}

\* the exception exc of a call leaves the caller's code
Propagates(c, call, exc) == exc # "none" /\ exc \notin Handled(c, call)

grace_expired_at_once(w) == TRUE

\* wait(timeout=5): the timeout has run out after GraceTicks ticks
grace_expired(w) == w >= GraceTicks

\* `if process is None: return`, then process.terminate().  On a child that
\* has exited the call either does nothing or raises OSError; the helper
\* returns on OSError, the inline copy passes on to the wait.
TermSignal(c) ==
    /\ tpc[c] = "call"
    /\ IF c = "helper" /\ ~term_handle
       THEN /\ tpc' = [tpc EXCEPT ![c] = "done"]
            /\ UNCHANGED <<sent, dead_at_call, raised>>
       ELSE \E exc \in (IF term_child THEN {"none"} ELSE {"none", "OSError"}) :
               /\ sent' = [sent EXCEPT ![c] = Append(@, "TERM")]
               /\ dead_at_call' = [dead_at_call EXCEPT ![c] = ~term_child]
               /\ raised' = [raised EXCEPT ![c] = Propagates(c, "terminate", exc)]
               /\ tpc' = [tpc EXCEPT ![c] =
                            IF Propagates(c, "terminate", exc) THEN "done"
                            ELSE IF exc = "OSError" /\ c = "helper" THEN "done"
                            ELSE "wait"]
    /\ UNCHANGED <<term_child, term_handle, waited, expired>>
    /\ UNCHANGED besideTerm

\* process.wait(timeout=5): returns once the child has exited, raises
\* TimeoutExpired when the timeout runs out first.
TermWait(c) ==
    /\ tpc[c] = "wait"
    /\ IF ~term_child
       THEN /\ tpc' = [tpc EXCEPT ![c] = "done"]
            /\ UNCHANGED <<waited, expired, raised>>
       ELSE IF grace_expired(waited[c])
       THEN /\ expired' = [expired EXCEPT ![c] = TRUE]
            /\ raised' = [raised EXCEPT ![c] = Propagates(c, "wait", "TimeoutExpired")]
            /\ tpc' = [tpc EXCEPT ![c] =
                         IF Propagates(c, "wait", "TimeoutExpired") THEN "done"
                         ELSE "kill"]
            /\ UNCHANGED waited
       ELSE /\ waited' = [waited EXCEPT ![c] = @ + 1]
            /\ UNCHANGED <<tpc, expired, raised>>
    /\ UNCHANGED <<term_child, term_handle, sent, dead_at_call>>
    /\ UNCHANGED besideTerm

\* process.kill() in the handler of TimeoutExpired; OSError is swallowed
TermKill(c) ==
    /\ tpc[c] = "kill"
    /\ \E exc \in (IF term_child THEN {"none"} ELSE {"none", "OSError"}) :
          /\ sent' = [sent EXCEPT ![c] = Append(@, "KILL")]
          /\ raised' = [raised EXCEPT ![c] = Propagates(c, "kill", exc)]
    /\ term_child' = FALSE
    /\ tpc' = [tpc EXCEPT ![c] = "done"]
    /\ UNCHANGED <<term_handle, waited, expired, dead_at_call>>
    /\ UNCHANGED besideTerm

\* the child exits: by itself, or because it honours the graceful signal
TermChildExit ==
    /\ term_child
    /\ term_child' = FALSE
    /\ UNCHANGED <<term_handle, tpc, waited, sent, expired, dead_at_call, raised>>
    /\ UNCHANGED besideTerm

NextTerm ==
    \/ \E c \in Callers : TermSignal(c)
    \/ \E c \in Callers : TermWait(c)
    \/ \E c \in Callers : TermKill(c)
    \/ TermChildExit

SpecTerm == InitTerm /\ [][NextTerm]_vars


\* ------------------------------------------------------ registry operations
\* The four helpers of the registry, called with any job id on any table,
\* the id present or not.
RegIds == {"j1", "j2", "j3"}

InitRegistry ==
    /\ reg_table = {}
    /\ reg_op = NoCall
    /\ InitJobs
    /\ IdleEnv
    /\ IdlePair
    /\ IdleNorm
    /\ IdleTerm
    /\ IdleResolve
    /\ IdleFolder
    /\ IdlePath
    /\ IdleOut
    /\ IdleProbe
    /\ IdleSubmit

RegisterCall(j) ==
    /\ reg_table' = register_job_control(reg_table, j)
    /\ reg_op' = [op |-> "register", id |-> j, before |-> reg_table]
    /\ UNCHANGED besideRegistry

SetProcessCall(j) ==
    /\ \E p \in {"probe", "fetch", "merge"} :
          reg_table' = set_job_process(reg_table, j, p)
    /\ reg_op' = [op |-> "setProcess", id |-> j, before |-> reg_table]
    /\ UNCHANGED besideRegistry

ClearProcessCall(j) ==
    /\ reg_table' = clear_job_process(reg_table, j)
    /\ reg_op' = [op |-> "clearProcess", id |-> j, before |-> reg_table]
    /\ UNCHANGED besideRegistry

UnregisterCall(j) ==
    /\ reg_table' = unregister_job_control(reg_table, j)
    /\ reg_op' = [op |-> "unregister", id |-> j, before |-> reg_table]
    /\ UNCHANGED besideRegistry

NextRegistry ==
    \/ \E j \in RegIds : RegisterCall(j)
    \/ \E j \in RegIds : SetProcessCall(j)
    \/ \E j \in RegIds : ClearProcessCall(j)
    \/ \E j \in RegIds : UnregisterCall(j)

SpecRegistry == InitRegistry /\ [][NextRegistry]_vars


\* ------------------------------------------------- worker: normalization
\* The request bodies: the fields the normalization reads. "Scene " stands
\* for a text that strip().lower() changes, "bogus" for an unknown type.
NormSubmissions ==
    [standalone : BOOLEAN,
     playlist_mode : {"", "merge", "both"},
     merge_playlist : {FALSE},
     extra : BOOLEAN,
     extra_name : {"", "Bonus"},
     extraType : {"", "trailer", "Scene ", "bogus"}]

\* (text or "trailer").strip().lower()
extra_type_text(t) ==
    IF t = "" THEN "trailer" ELSE IF t = "Scene " THEN "scene" ELSE t

allowed_extra_types ==
    {"trailer", "behindthescenes", "deleted", "featurette", "interview",
     "scene", "short", "other"}

\* _prepare_create_payload: the request stored by create() for a body that
\* passes the validation.
create_request(data) ==
    [standalone |-> data.standalone,
     playlist_mode |-> resolve_playlist_mode(data).mode,
     merge_playlist |-> resolve_playlist_mode(data).mode = "merge",
     extra |-> data.extra /\ ~data.standalone,
     extra_name |-> IF data.standalone THEN "" ELSE data.extra_name,
     extraType |-> IF data.standalone THEN "other"
                   ELSE extra_type_text(data.extraType)]

\* the job exists with the request create() stored; the worker has started
InitNorm ==
    /\ norm_data \in {d \in NormSubmissions :
                        resolve_playlist_mode(d).errors
                           \cup resolve_extra_settings(d) = {}}
    /\ stored_request = create_request(norm_data)
    /\ norm_cancel = FALSE
    /\ npc = "first"
    /\ InitJobs
    /\ IdleEnv
    /\ IdlePair
    /\ IdleRegistry
    /\ IdleTerm
    /\ IdleResolve
    /\ IdleFolder
    /\ IdlePath
    /\ IdleOut
    /\ IdleProbe
    /\ IdleSubmit

\* playlist_mode = (payload.get("playlist_mode") or ("merge" if
\* merge_playlist else "single")); not allowed: "single"
normalize_playlist_mode(p) ==
    LET mode == IF p.playlist_mode # "" THEN p.playlist_mode
                ELSE IF p.merge_playlist THEN "merge" ELSE "single"
    IN  IF mode \in ALLOWED_PLAYLIST_MODES THEN mode ELSE "single"

normalize_extra_type_kept(t) == extra_type_text(t)

\* extra_type not in allowed_extra_types: "other"
normalize_extra_type(t) ==
    IF extra_type_text(t) \in allowed_extra_types
    THEN extra_type_text(t) ELSE "other"

\* The first part: playlist mode, merge flag, standalone flag and extra type
\* are put into the payload and jobs_repo.update stores it.
NormFirst ==
    /\ npc = "first"
    /\ stored_request' =
          [stored_request EXCEPT
              !.playlist_mode = normalize_playlist_mode(stored_request),
              !.merge_playlist = normalize_playlist_mode(stored_request) = "merge",
              !.extraType = normalize_extra_type(@)]
    /\ npc' = "check"
    /\ UNCHANGED <<norm_data, norm_cancel>>
    /\ UNCHANGED besideNorm

\* ensure_not_cancelled() between the two updates
NormCheck ==
    /\ npc = "check"
    /\ npc' = IF norm_cancel THEN "cancelled" ELSE "second"
    /\ UNCHANGED <<norm_data, stored_request, norm_cancel>>
    /\ UNCHANGED besideNorm

\* The second part: extra and extra_name, and jobs_repo.update stores the
\* payload again.
NormSecond ==
    /\ npc = "second"
    /\ LET extra == stored_request.extra /\ ~stored_request.standalone IN
       stored_request' =
          [stored_request EXCEPT
              !.extra = extra,
              !.extra_name = IF extra THEN @ ELSE ""]
    /\ npc' = "normalised"
    /\ UNCHANGED <<norm_data, norm_cancel>>
    /\ UNCHANGED besideNorm

\* cancel_job sets the event of the job
NormCancel ==
    /\ ~norm_cancel
    /\ npc \in {"first", "check", "second"}
    /\ norm_cancel' = TRUE
    /\ UNCHANGED <<norm_data, stored_request, npc>>
    /\ UNCHANGED besideNorm

NextNorm == NormFirst \/ NormCheck \/ NormSecond \/ NormCancel

SpecNorm == InitNorm /\ [][NextNorm]_vars


\* ------------------------------------------- two jobs, one target directory
\* Two single-video jobs whose workers run at the same time with the same
\* download directory, the same desired stem and the same canonical stem
\* (the same video submitted twice for the same movie). Every file is
\* fetched with the extension mp4.
PairStem == <<"a">>
PairNames(dir) == {f.name : f \in dir}
PairOwner(dir, name) == (CHOOSE f \in dir : f.name = name).by

InitPair ==
    /\ pair_dir \in {{}, {[name |-> FileName(PairStem, "mp4"), by |-> "old"]}}
    /\ pair_canon \in StemSet
    /\ pair_job = [j \in PairJobs |-> [IdlePairJob EXCEPT !.pc = "stem"]]
    /\ InitJobs
    /\ IdleEnv
    /\ IdleNorm
    /\ IdleRegistry
    /\ IdleTerm
    /\ IdleResolve
    /\ IdleFolder
    /\ IdlePath
    /\ IdleOut
    /\ IdleProbe
    /\ IdleSubmit

\* the working download stem is chosen from what the directory holds now
PairChooseStem(j) ==
    /\ pair_job[j].pc = "stem"
    /\ pair_job' = [pair_job EXCEPT
                      ![j].stem = FreeDownloadStem(PairNames(pair_dir), PairStem, 0),
                      ![j].pc = "fetch"]
    /\ UNCHANGED <<pair_dir, pair_canon>>
    /\ UNCHANGED besidePair

\* the fetch child writes "<stem>.mp4" under the output template, replacing
\* a file of that name, or finds the file present and fetches nothing
PairFetch(j) ==
    /\ pair_job[j].pc = "fetch"
    /\ LET name == FileName(pair_job[j].stem, "mp4") IN
       \/ /\ pair_dir' = {f \in pair_dir : f.name # name}
                            \cup {[name |-> name, by |-> j]}
          /\ pair_job' = [pair_job EXCEPT
                            ![j].pc = "glob",
                            ![j].overwrote =
                               IF name \in PairNames(pair_dir)
                               THEN PairOwner(pair_dir, name) ELSE "none"]
       \/ /\ name \in PairNames(pair_dir)
          /\ pair_job' = [pair_job EXCEPT ![j].pc = "glob"]
          /\ UNCHANGED pair_dir
    /\ UNCHANGED pair_canon
    /\ UNCHANGED besidePair

\* downloaded_candidates = glob(expected_pattern); none fails the job, else
\* the newest one is the target
PairGlob(j) ==
    /\ pair_job[j].pc = "glob"
    /\ LET cands == {f \in pair_dir :
                        fnmatch(f.name, pair_job[j].stem \o <<".", "*">>)} IN
       IF cands = {}
       THEN pair_job' = [pair_job EXCEPT ![j].pc = "failed"]
       ELSE \E f \in cands :
               pair_job' = [pair_job EXCEPT ![j].pc = "name",
                                            ![j].target = f.name,
                                            ![j].picked = f.by]
    /\ UNCHANGED <<pair_dir, pair_canon>>
    /\ UNCHANGED besidePair

\* the canonical name is chosen from what the directory holds now
PairCanonical(j) ==
    /\ pair_job[j].pc = "name"
    /\ pair_job' = [pair_job EXCEPT
                      ![j].final = FreeCanonicalName(PairNames(pair_dir),
                                                     pair_canon, "mp4", 0),
                      ![j].pc = "rename"]
    /\ UNCHANGED <<pair_dir, pair_canon>>
    /\ UNCHANGED besidePair

\* os.replace(target_path, canonical_path) unless they are the same path;
\* OSError (the target is gone) fails the job
PairRename(j) ==
    /\ pair_job[j].pc = "rename"
    /\ LET t == pair_job[j].target
           c == pair_job[j].final IN
       IF t = c
       THEN /\ pair_job' = [pair_job EXCEPT ![j].pc = "done"]
            /\ UNCHANGED pair_dir
       ELSE IF t \notin PairNames(pair_dir)
       THEN /\ pair_job' = [pair_job EXCEPT ![j].pc = "failed"]
            /\ UNCHANGED pair_dir
       ELSE /\ pair_dir' = {f \in pair_dir : f.name \notin {t, c}}
                              \cup {[name |-> c, by |-> PairOwner(pair_dir, t)]}
            /\ pair_job' = [pair_job EXCEPT
                              ![j].pc = "done",
                              ![j].overwrote =
                                 IF c \in PairNames(pair_dir)
                                 THEN PairOwner(pair_dir, c) ELSE @]
    /\ UNCHANGED pair_canon
    /\ UNCHANGED besidePair

NextPair ==
    \/ \E j \in PairJobs : PairChooseStem(j)
    \/ \E j \in PairJobs : PairFetch(j)
    \/ \E j \in PairJobs : PairGlob(j)
    \/ \E j \in PairJobs : PairCanonical(j)
    \/ \E j \in PairJobs : PairRename(j)

SpecPair == InitPair /\ [][NextPair]_vars

\* ------------------------------------------------------------------ claims
Finished(j) == pc[j] = "done"

\* cancel_job answered 202 for job j
Accepted(j) == \E r \in Reqs : req[r].job = j /\ req[r].code = 202

\* C1: a cancel request accepted with 202 for a queued or processing job
\* gives the job the terminal status cancelled and never success, wherever
\* the worker is when the event is set.  Stated in its "never success"
\* half: a finished job with an accepted cancel request is not in success.
C1_AcceptedCancelNeverSuccess ==
    \A j \in JobIds : (Finished(j) /\ Accepted(j)) => status[j] # "success"

\* cancel_job set the event and terminated the attached fetch child of job j
CancelTerminatedFetch(j) ==
    \E r \in Reqs : /\ req[r].job = j /\ req[r].code = 202
                    /\ req[r].process = "fetch" /\ req[r].signalled

\* C2: a cancellation accepted while the fetch child runs (event set, child
\* terminated by cancel_job) ends the job in cancelled, not failed, whether or
\* not the child prints another line and whatever its exit code; stated for
\* the runs in which no unexpected exception is raised.
C2_CancelDuringFetchIsCancelled ==
    \A j \in JobIds :
        (Finished(j) /\ CancelTerminatedFetch(j) /\ cause[j] # "unexpected")
            => status[j] = "cancelled"

Entries(j) == {c \in JOB_CONTROLS : c.id = j}

\* C3 (as claimed): at most one JobControl entry per job id, and no entry for
\* a job whose stored status is success, failed or cancelled.
C3_NoEntryOnceTerminal ==
    \A j \in JobIds :
        /\ Cardinality(Entries(j)) <= 1
        /\ status[j] \in Terminal => ~HasControl(j)

\* C3 (amended): at most one JobControl entry per job id, and no entry for a
\* job whose worker run has finished; the entry is still there between the
\* terminal status write and the worker's cleanup step.
C3_NoEntryOnceFinished ==
    \A j \in JobIds :
        /\ Cardinality(Entries(j)) <= 1
        /\ Finished(j) => (~HasControl(j) /\ status[j] \in Terminal)

C3_Witness ==
    \E j \in JobIds : Finished(j) /\ status[j] = "success" /\ ~HasControl(j)

\* C4: the entry exists from job launch, before the worker starts, until the
\* worker's cleanup step; every finished worker run has removed it exactly
\* once, whatever the outcome; with all workers finished the table is empty.
C4_EntryFromLaunchToCleanup ==
    /\ \A j \in JobIds :
          /\ pc[j] \notin {"none", "done"} => (HasControl(j) /\ unregisters[j] = 0)
          /\ Finished(j) => unregisters[j] = 1
    /\ (\A j \in JobIds : pc[j] \in {"none", "done"}) => JOB_CONTROLS = {}

C4_Witness ==
    \E j \in JobIds : /\ Finished(j) /\ unregisters[j] = 1 /\ JOB_CONTROLS = {}
                      /\ status[j] = "failed" /\ cause[j] = "unexpected"

\* C5: a terminal status is never changed by a later step of the worker or
\* by a cancel request, and a worker run writes at most one terminal status.
C5_TerminalAbsorbing ==
    [][\A j \in JobIds :
          /\ status[j] \in Terminal => status'[j] = status[j]
          /\ terminalWrites'[j] <= 1]_vars

C5_Witness ==
    \E j \in JobIds, r \in Reqs :
        /\ status[j] \in Terminal /\ terminalWrites[j] = 1
        /\ req[r].job = j /\ req[r].code = 202 /\ message[j] = "Cancelling..."
        /\ pc[j] = "fin_clear"

\* C6: a finished worker run leaves the stored status in success, failed or
\* cancelled, on every exit path.
C6_FinishedIsTerminal ==
    \A j \in JobIds : Finished(j) => (status[j] \in Terminal /\ terminalWrites[j] = 1)

C6_Witness ==
    \E j \in JobIds : Finished(j) /\ status[j] = "cancelled" /\ terminalWrites[j] = 1

\* C7: a cancel request that finds cancellation already requested has no
\* further effect; stated for the signal: it sends no signal to any process.
C7_SecondCancelSendsNoSignal ==
    \A r \in Reqs : req[r].already => ~req[r].signalled

\* The failures that happen after the fetch phase has started.
AfterFetchCauses ==
    {"fetch_exit", "no_output", "no_ffmpeg", "manifest", "merge_launch",
     "merge_failed", "rename"}

\* No fragment, fetched file, manifest, merged file or staging directory.
NoPartialOutput(j) ==
    /\ ~files[j].part /\ files[j].nOut = 0 /\ ~files[j].dir
    /\ ~files[j].manifest /\ ~files[j].merged

\* C8: when a job ends in failed after its fetch phase has started, no
\* partial output remains: fragments, fetched segment files and the staging
\* directory are removed.
C8_FailedLeavesNoPartialOutput ==
    \A j \in JobIds :
        (Finished(j) /\ status[j] = "failed" /\ cause[j] \in AfterFetchCauses)
            => NoPartialOutput(j)

\* C9: when a job ends in cancelled, nothing of the interrupted phase
\* remains: fragments, files under the working download stem, staged
\* segments, merged output, staging directory, renamed final file.
C9_CancelledLeavesNoArtifact ==
    \A j \in JobIds :
        (Finished(j) /\ status[j] = "cancelled")
            => (NoPartialOutput(j) /\ ~files[j].final)

\* A file of the directory has the stem st, whatever its extension: its
\* name is st, a dot and an extension.
StemTaken(dir, st) ==
    \E f \in dir : /\ Len(f) >= Len(st) + 2
                   /\ SubSeq(f, 1, Len(st) + 1) = st \o <<".">>

\* The stem the collision rule is claimed to return.
RECURSIVE RuleStem(_, _, _)
RuleStem(dir, stem, n) ==
    IF ~StemTaken(dir, WithSuffix(stem, n)) THEN WithSuffix(stem, n)
    ELSE RuleStem(dir, stem, n + 1)

\* C10: the collision rule returns the desired stem when no file of the
\* target directory has that stem (any extension), else "stem (n)" for the
\* smallest n >= 1 whose stem no file has; in both applications.  Stated
\* for the first application, the working download stem chosen before the
\* fetch.
C10_DownloadStemRule ==
    stemPc = "working" => chosen = RuleStem(dirFiles, desired, 0)

\* The same rule for the second application, the canonical stem chosen
\* before the rename (the code tests the exact name "stem.ext" only).
CanonicalStemRule ==
    stemPc = "canonical" => StemOf(chosen) = RuleStem(dirFiles, desired, 0)

\* A download-progress line: tagged [download] and carrying a percentage.
IsProgressLine(line) == line.prefix = "[download]" /\ progress_pattern(line) # <<>>

\* C11: of N consecutive download-progress lines of one fetch phase, with debug
\* logging disabled the first adds one log entry and each later one takes its
\* place, so the log gains exactly one entry, the latest line; with debug
\* logging enabled every line adds its own entry, in order.
C11_ProgressRunCollapses ==
    [][\A line \in OutputLines :
          (fed' = Append(fed, line) /\ IsProgressLine(line)) =>
             IF debug_enabled
             THEN logs' = Append(logs, LogEntry("", line))
             ELSE IF fed # <<>> /\ IsProgressLine(fed[Len(fed)])
                  THEN logs' = [logs EXCEPT ![Len(logs)] = LogEntry("", line)]
                  ELSE logs' = Append(logs, LogEntry("", line))]_vars

\* C16: every progress value written to the job store lies in [0,100].
C16_ProgressInRange == progress \in 0..100

\* Some line handled earlier in this fetch phase wrote a progress value.
ParsedBefore == \E i \in DOMAIN fed : progress_pattern(fed[i]) # <<>>

\* C17: between two progress writes made during the same subprocess phase
\* (here the fetch phase) the stored progress never decreases.
C17_NoDecreaseWithinPhase ==
    [][(ParsedBefore /\ fed' # fed) => progress' >= progress]_vars

C15_FlagOneShot ==
    [][\A j \in JobIds :
          /\ cancel_event[j] => cancel_event'[j]
          /\ (~cancel_event[j] /\ cancel_event'[j]) =>
                \E r \in Reqs : /\ req[r].job = j
                                /\ req[r].pc = "checked"
                                /\ req'[r].pc = "locked"]_vars

C15_Witness ==
    \E j \in JobIds : Finished(j) /\ cancel_event[j]

\* The cancel requests for job j that went through the locked section.
PastLock(j) ==
    {r \in Reqs : req[r].job = j /\ (req[r].pc \in {"locked", "terminated"}
                                     \/ req[r].code = 202)}

\* C18: of the cancel requests that went through the locked section for one
\* job exactly one saw the flag not yet set, and the line "Cancellation
\* requested by user." is appended at most once.
C18_OneFirstRequest ==
    \A j \in JobIds :
       /\ PastLock(j) # {} =>
             Cardinality({r \in PastLock(j) : ~req[r].already}) = 1
       /\ cancelLogs[j] <= 1

C18_Witness ==
    \E j \in JobIds :
       /\ Cardinality({r \in PastLock(j) : req[r].code = 202}) >= 2
       /\ cancelLogs[j] = 1

\* C13: when the probe timed out and no cancellation was requested, the child
\* is stopped and the job is at the fetch phase with an empty resolved-format
\* summary and exactly one warning logged for the probe.
C13_TimeoutContinuesWithoutMetadata ==
    (metadata_timed_out /\ ~probe_cancel /\ ppc = "fetch") =>
       /\ ~info_process.alive
       /\ resolved_format = "empty"
       /\ probeWarnings = 1

\* C19: once a cancel request has set the event of a job, the worker of that
\* job eventually finishes (terminal status stored, registry entry removed).
C19_CancelledWorkerFinishes ==
    \A j \in JobIds : cancel_event[j] ~> Finished(j)

\* A submission with one of the validation errors: the URL missing, not
\* parseable or not a http(s) URL of a supported site; no movie selected for
\* a job that is not standalone; a playlist mode that is neither single nor
\* merge; an extra requested without a name.
HasValidationError(data) ==
    \/ data.yturl = EmptyUrl
    \/ data.yturl.scheme \notin {"", "http", "https"}
    \/ data.yturl.host \notin allowed_hosts
    \/ ~data.standalone /\ data.movieId = ""
    \/ data.playlist_mode \notin {"", "single", "merge"}
    \/ data.extra /\ data.extra_name = ""

\* C20: a submission with a validation error is answered with a rejection
\* and creates no job record, no registry entry and no worker.
C20_InvalidSubmissionCreatesNothing ==
    [][HasValidationError(submitted') =>
          /\ response' \in {400, 503}
          /\ UNCHANGED <<status, JOB_CONTROLS, pc>>]_vars

C20_Witness ==
    /\ response = 400
    /\ HasValidationError(submitted)
    /\ \A j \in JobIds : status[j] = "none" /\ pc[j] = "none" /\ ~HasControl(j)

\* C21: whatever the probe child did (launch failure, exit code, timeout,
\* output), the probe and the naming that follows never fail the job.
C21_ProbeNeverFails == ppc # "failed"

\* C24: the read loop is always left, and it is left only with the
\* cancellation flag set, with the budget elapsed, or with the child gone and
\* no stream registered any more.
C24_ReadLoopTerminates ==
    /\ (ppc = "loop") ~> (ppc # "loop")
    /\ [][(ppc = "loop" /\ ppc' # "loop") =>
             \/ probe_cancel
             \/ elapsed >= TimeoutTicks
             \/ ~info_process.alive /\ selector' = {}]_vars

\* The loop was left at the budget while a descendant of the child still
\* held a stream open.
C24_Witness == ppc = "wait" /\ metadata_timed_out /\ wr # {} /\ ~probe_cancel

\* The lines of the output read so far that hold a JSON object.
ObjectLines == {i \in DOMAIN chunks["stdout"] : chunks["stdout"][i] \in ObjectKinds}

\* The greatest element of a non-empty set of line numbers.
Latest(S) == CHOOSE i \in S : \A k \in S : k <= i

\* The entry the selection rule names for the output read.
SelectedByRule ==
    LET out == chunks["stdout"]
        plain == {i \in ObjectLines : out[i] \notin {"playlist"}}
    IN  IF plain # {} THEN out[Latest(plain)]
        ELSE IF ObjectLines # {} THEN out[Latest(ObjectLines)]
        ELSE IF out = <<"head", "tail">> THEN "document"
        ELSE "None"

\* The probe output went through the resolver.
ResolverRan ==
    /\ ppc \in {"name", "fetch", "failed"}
    /\ info_returncode \in {<<0>>, <<>>} \/ metadata_timed_out

\* C25: the resolver selects the last parsed object that is not a container,
\* else the last parsed object, else the whole output parsed as one
\* document, else nothing.
C25_ResolverSelection == ResolverRan => info_payload = SelectedByRule

C25_Witness ==
    /\ ResolverRan
    /\ chunks["stdout"] = <<"video", "playlist">>
    /\ info_payload = "video"

\* The worker is in the merge, or past it.
MergeSteps ==
    {"chk_manifest", "manifest", "chk_merge", "merge_spawn", "merge_attach",
     "merge_wait", "merge_post", "merged_chk"}

\* C22: with the merge tool absent, a merge-mode job never starts the merge
\* and never reaches success, and its run ends in failed unless a cancel
\* request came first; a job that is not in merge mode is never failed for
\* the missing tool: it is warned once the probe starts and can succeed.
C22_MergeToolAbsence ==
    \A j \in JobIds :
       /\ (~ffmpeg_path /\ payload[j].merge_playlist) =>
             /\ status[j] # "success"
             /\ pc[j] \notin MergeSteps
             /\ ~files[j].manifest /\ ~files[j].merged
             /\ (Finished(j) /\ ~cancel_event[j]) => status[j] = "failed"
       /\ cause[j] = "no_ffmpeg" =>
             /\ payload[j].merge_playlist
             /\ ~ffmpeg_path
             /\ status[j] = "failed"
       /\ loc[j].ffmpeg_warned => ~ffmpeg_path

\* A merge-mode job fetched its segments and its run ended in failed for the
\* missing tool.
C22_Witness ==
    /\ ~ffmpeg_path
    /\ \E j \in JobIds :
          /\ payload[j].merge_playlist /\ files[j].nOut > 0
          /\ cause[j] = "no_ffmpeg" /\ status[j] = "failed" /\ Finished(j)

\* C23: when the wait after the read loop returns a non-zero code, the job is
\* failed with the message "Download failed: " followed by the last captured
\* line cut to 300 characters (the default text when no line was captured),
\* and the worker returns: it goes on to locate, merge or rename the fetched
\* files only after a zero code.
C23_NonZeroExitFails ==
    /\ [](fpc = "locate" => return_code = 0)
    /\ [](fpc = "failed" => return_code # 0)
    /\ [][(fpc = "post" /\ fpc' # "post" /\ return_code # 0) =>
             /\ fpc' = "failed"
             /\ job_message'[1] = "Download failed: "
             /\ IF fed = <<>>
                THEN job_message'[2].prefix = "Download failed."
                ELSE /\ job_message'[2].prefix = fed[Len(fed)].prefix
                     /\ job_message'[2].run = fed[Len(fed)].run
                     /\ job_message'[2].mark = fed[Len(fed)].mark
                     /\ job_message'[2].len =
                           IF fed[Len(fed)].len <= 300 THEN fed[Len(fed)].len ELSE 300]_vars

\* The fetch ended with a non-zero code after a line longer than the limit.
C23_Witness ==
    /\ fpc = "failed"
    /\ fed # <<>> /\ fed[Len(fed)].len > 300
    /\ job_message[2].len = 300

\* The level the order of the rules gives a line that is not logged as
\* progress.
LevelByOrder(line) ==
    CASE line.mark \in {"error", "both"} -> "ERROR"
      [] line.mark = "warning" -> "WARNING"
      [] line.mark = "none" /\ line.prefix \in {"[download]", "[ffmpeg]"} -> ""
      [] line.mark = "none" /\ line.prefix
            \in {"[debug]", "[info]", "[extractor]", "[metadata]", "[youtube]"} -> "DEBUG"
      [] OTHER -> ""

\* The log gained one entry, or had its last entry replaced.
OneAppendOrReplace ==
    \/ Len(logs') = Len(logs) + 1 /\ SubSeq(logs', 1, Len(logs)) = logs
    \/ /\ Len(logs') = Len(logs)
       /\ \A i \in 1..(Len(logs) - 1) : logs'[i] = logs[i]

\* C26: a handled line with a percentage sets the progress; a download
\* line with a percentage is logged as progress and nothing else is looked
\* at; any other line is appended at the level of the first rule that matches
\* (error marker, warning marker, download or ffmpeg prefix, informational
\* prefix, else normal); every line makes exactly one append or replace.
C26_ClassificationOrder ==
    [][fed' # fed =>
         LET line == fed'[Len(fed')]
         IN  /\ fed' = Append(fed, line)
             /\ OneAppendOrReplace
             /\ logs'[Len(logs')].line = line
             /\ progress_pattern(line) # <<>> => progress' = float(progress_pattern(line))
             /\ progress_pattern(line) = <<>> => progress' = progress
             /\ IF IsProgressLine(line)
                THEN logs'[Len(logs')].level = ""
                ELSE logs' = Append(logs, LogEntry(LevelByOrder(line), line))]_vars

\* A line holding both markers was logged as an error.
C26_Witness ==
    /\ fed # <<>> /\ fed[Len(fed)].mark = "both"
    /\ logs[Len(logs)] = LogEntry("ERROR", fed[Len(fed)])

\* A log entry made of a download-progress line.
IsProgressEntry(entry) == entry.level = "" /\ IsProgressLine(entry.line)

\* C27: a log entry that changes in place was a progress entry: no entry
\* of another kind, written by the worker or by a cancel request, is ever
\* overwritten.
C27_ReplaceOnlyProgress ==
    [][\A i \in DOMAIN logs : logs'[i] # logs[i] => IsProgressEntry(logs[i])]_vars

\* The candidates of the resolution in the order of the strategies, each
\* with the directory that has to exist for it to be created.
ResolveCandidates ==
    LET path == resolve_args.original_path
        matching == SelectSeq(resolve_args.path_overrides,
                              LAMBDA o : /\ Len(o.remote) <= Len(path)
                                         /\ \A k \in DOMAIN o.remote :
                                               path[k] = o.remote[k])
    IN  <<[candidate |-> path, base |-> dirname(path), via |-> "recorded"]>>
        \o [i \in 1..Len(matching) |->
              LET rest == SubSeq(path, Len(matching[i].remote) + 1, Len(path))
              IN  [candidate |-> matching[i].local \o rest,
                   base |-> IF rest = <<>> THEN matching[i].local
                            ELSE dirname(matching[i].local \o rest),
                   via |-> "override"]]
        \o [i \in 1..Len(resolve_args.file_paths) |->
              [candidate |-> Append(resolve_args.file_paths[i], basename(path)),
               base |-> resolve_args.file_paths[i],
               via |-> "library"]]

\* The candidate is a directory, or can be made one.
Yields(c) ==
    \/ c.candidate \in dirs
    \/ /\ resolve_args.create_if_missing /\ resolve_args.writable
       /\ c.base = <<>> \/ c.base \in dirs

\* C28: the resolution returns the first candidate, in the order recorded
\* path, override rewrites, library roots, that is a directory or can be
\* created (creation allowed and the base directory exists); it returns no path
\* exactly when no candidate does, and then the job is failed.
C28_ResolutionOrder ==
    [][(rpc = "input" /\ rpc' # "input" /\ resolve_args.original_path # NoPath) =>
          LET cs == ResolveCandidates
              ok == {i \in DOMAIN cs : Yields(cs[i])}
          IN  IF ok = {}
              THEN resolved'.path = NoPath /\ rpc' = "failed" /\ dirs' = dirs
              ELSE LET first == CHOOSE i \in ok : \A k \in ok : i <= k
                   IN  /\ rpc' = "resolved"
                       /\ resolved'.path = cs[first].candidate
                       /\ resolved'.via = cs[first].via
                       /\ resolved'.created = (cs[first].candidate \notin dirs)
                       /\ dirs' = dirs \cup {cs[first].candidate}]_vars

\* The recorded path and the override rewrite gave nothing, and the folder
\* was created under the second library root.
C28_Witness ==
    /\ rpc = "resolved" /\ resolved.via = "library" /\ resolved.rule = 2
    /\ resolved.created
    /\ Len(resolve_args.path_overrides) = 2

\* The override rules whose remote prefix matches the recorded path.
MatchingRules ==
    {i \in DOMAIN resolve_args.path_overrides :
        startswith(resolve_args.original_path, resolve_args.path_overrides[i].remote)}

\* C29: when the resolution used an override rule, no other matching rule
\* with a longer remote prefix had a candidate that was a directory or could
\* be created.
C29_LongestPrefixUsed ==
    [][(rpc = "input" /\ rpc' = "resolved" /\ resolved'.via = "override") =>
          \A i \in MatchingRules :
             LET o == resolve_args.path_overrides[i]
                 c == override_candidate(resolve_args.original_path, o)
             IN  (c.candidate \in dirs
                    \/ (resolve_args.create_if_missing /\ resolve_args.writable
                          /\ c.base \in dirs)) =>
                     Len(o.remote) <= Len(resolve_args.path_overrides[resolved'.rule].remote)]_vars

\* C30: the folder a standalone job writes into is a directory, never a
\* file, and it is not a directory that another job made for its output.
C30_FolderIsFresh ==
    spc = "done" =>
       /\ root_entries[final_folder_path].kind = "dir"
       /\ root_entries[final_folder_path].job \in {0, sjob}

C32_TerminateGracefulThenKill ==
    /\ [](\A c \in Callers :
            /\ sent[c] \in {<<>>, <<"TERM">>, <<"TERM", "KILL">>}
            /\ waited[c] <= GraceTicks
            /\ ~raised[c]
            /\ (Len(sent[c]) = 2 => expired[c])
            /\ (dead_at_call[c] => Len(sent[c]) <= 1)
            /\ (c = "helper" /\ ~term_handle => sent[c] = <<>>))
    /\ [][\A c \in Callers :
            (expired'[c] /\ ~expired[c]) =>
                term_child /\ waited[c] = GraceTicks]_vars

C32_Witness ==
    /\ sent["helper"] = <<"TERM", "KILL">> /\ tpc["helper"] = "done"
    /\ sent["inline"] = <<"TERM">> /\ dead_at_call["inline"]
    /\ tpc["inline"] = "done"

\* the checkpoints that come right before the spawn of a phase's child
PhaseCheckpoints == {"chk_probe", "chk_fetch", "chk_merge"}

\* C33: a worker that evaluates the checkpoint before the probe, the fetch
\* or the merge with the event set raises JobCancelled without starting a
\* child; the handler stores cancelled, and from then on the status stays
\* and no child is started.
C33_SetAtCheckpointNeverSpawns ==
    [][\A j \in JobIds :
          /\ (pc[j] \in PhaseCheckpoints /\ cancel_event[j]
                /\ pc'[j] \notin {pc[j], "except"}) =>
                   pc'[j] = "cancelled" /\ proc'[j] = proc[j]
          /\ (pc[j] = "cancelled" /\ pc'[j] # pc[j]) =>
                /\ pc'[j] = "fin_clear"
                /\ status'[j] = "cancelled"
                /\ proc'[j] = proc[j]
          /\ pc[j] \in {"fin_clear", "fin_unreg", "done"} =>
                /\ pc'[j] \in {"fin_clear", "fin_unreg", "done"}
                /\ status'[j] = status[j]
                /\ (proc'[j].alive => proc[j].alive)]_vars

C33_Witness ==
    \E j \in JobIds :
       /\ pc[j] = "cancelled" /\ cancel_event[j]
       /\ proc[j].phase = "fetch" /\ files[j].manifest

\* C34: the stored status of a job only moves from none to queued (creation),
\* from queued to processing, and from processing to one of success, failed,
\* cancelled; a rewrite of processing changes nothing; a worker writes at
\* most one terminal status, and exactly one by the time it has finished.
C34_StatusSequence ==
    /\ [][\A j \in JobIds :
            status'[j] # status[j] =>
               \/ status[j] = "none" /\ status'[j] = "queued"
               \/ status[j] = "queued" /\ status'[j] = "processing"
               \/ status[j] = "processing" /\ status'[j] \in Terminal]_vars
    /\ [](\A j \in JobIds :
            /\ terminalWrites[j] <= 1
            /\ (status[j] \in Terminal <=> terminalWrites[j] = 1)
            /\ (Finished(j) => status[j] \in Terminal))

\* the job was found unconfigured right after the worker started
C34_Witness ==
    \E j \in JobIds :
       /\ status[j] = "failed" /\ cause[j] = "config"
       /\ terminalWrites[j] = 1 /\ Finished(j)

\* the process handle of the job's registry entry ("none": empty or no entry)
C36_Handle(j) == IF HasControl(j) THEN Control(j).process ELSE "none"

\* the positions of the worker at which the child of a phase is attached
C36_Holding ==
    [probe |-> {"probe_loop", "probe_clear"},
     fetch |-> {"fetch_loop", "fetch_clear"},
     merge |-> {"merge_wait", "merge_clear"}]

\* C36: the registry entry of a job holds a handle only while the worker is
\* inside the subprocess phase that attached it, so it is empty between the
\* phases and after a phase ended normally, by a launch error or by a
\* cancellation; a handle is only ever attached to an empty entry.
C36_HandleOnlyInsidePhase ==
    /\ [](\A j \in JobIds :
            C36_Handle(j) # "none" =>
               /\ pc[j] \in C36_Holding[C36_Handle(j)]
               /\ proc[j].phase = C36_Handle(j))
    /\ [][\A j \in JobIds :
            C36_Handle(j)' # C36_Handle(j) =>
               C36_Handle(j) = "none" \/ C36_Handle(j)' = "none"]_vars

\* the fetch ended by a cancellation and its handle is gone
C36_Witness ==
    \E j \in JobIds :
       /\ pc[j] = "cancelled" /\ loc[j].unwinding
       /\ proc[j].phase = "fetch"
       /\ HasControl(j) /\ C36_Handle(j) = "none"

\* C37: once the stored status of a job is terminal its message and its log
\* are not changed by a cancel request: no "Cancelling..." message and no
\* "Cancellation requested by user." line is written after the terminal write.
C37_TerminalFieldsFinal ==
    [][\A j \in JobIds :
          status[j] \in Terminal =>
             /\ message'[j] = message[j]
             /\ cancelLogs'[j] = cancelLogs[j]]_vars

\* C38: a cancel request for an unknown job is answered 404, one for a job
\* with a terminal status 409 and one that finds no registry entry 409; the
\* step that rejects a request is the first one that could write anything,
\* and it leaves the event, the registry, the children, the files and the
\* job store as they are.
C38_RejectedCancelChangesNothing ==
    [][\A r \in Reqs :
          LET j == req'[r].job IN
          /\ (req[r].pc = "idle" /\ req'[r].pc # "idle") =>
                /\ (status[j] = "none" => req'[r].code = 404)
                /\ (status[j] \in Terminal => req'[r].code = 409)
          /\ (req[r].pc = "checked" /\ req'[r].pc # "checked" /\ ~HasControl(j)) =>
                req'[r].code = 409
          /\ (req[r].code = 0 /\ req'[r].code \in {404, 409}) =>
                /\ req[r].pc \in {"idle", "checked"}
                /\ ~req'[r].signalled
                /\ UNCHANGED <<status, message, cancelLogs, cancel_event,
                               JOB_CONTROLS, proc, pipe, files>>]_vars

\* one request rejected as unknown and one rejected later, nothing written
C38_Witness ==
    \E r1, r2 \in Reqs :
       /\ req[r1].code = 404 /\ req[r2].code = 409
       /\ \A j \in JobIds : ~cancel_event[j] /\ cancelLogs[j] = 0 /\ Finished(j)

\* C40: unregister, setProcess and clearProcess called with a job id that
\* has no entry return the table they were given: no entry is created and
\* none is changed.
C40_AbsentIdIsNoOp ==
    (reg_op.op \in {"unregister", "setProcess", "clearProcess"}
        /\ ~\E c \in reg_op.before : c.id = reg_op.id)
      => reg_table = reg_op.before

C40_Witness ==
    /\ reg_op.op = "clearProcess" /\ reg_op.id = "j2"
    /\ reg_op.before = {[id |-> "j1", process |-> "fetch"]}
    /\ reg_table = reg_op.before

\* C39: once the worker has stored the normalized payload (the first time
\* already, so also when the job is cancelled before the second update), the
\* request of the job record has playlist_mode single or merge,
\* merge_playlist true exactly for merge, an allowed extraType, and for a
\* standalone job extra false and an empty extra name.
C39_NormalizedRequest ==
    npc \in {"check", "second", "cancelled", "normalised"} =>
       /\ stored_request.playlist_mode \in {"single", "merge"}
       /\ stored_request.merge_playlist <=> stored_request.playlist_mode = "merge"
       /\ stored_request.extraType \in allowed_extra_types
       /\ stored_request.standalone =>
             (~stored_request.extra /\ stored_request.extra_name = "")

C39_Witness ==
    /\ npc = "normalised"
    /\ norm_data.extraType = "bogus" /\ stored_request.extraType = "other"
    /\ norm_data.playlist_mode = "merge" /\ stored_request.merge_playlist
    /\ norm_data.extra /\ stored_request.extra

\* C35: of two jobs that run at the same time with the same target directory
\* and the same desired stem, neither takes a file the other wrote as its
\* download nor replaces a file the other wrote, and when both are done their
\* final files have different names and are both in the directory.
C35_ConcurrentJobsNeverCollide ==
    \A j, k \in PairJobs :
       j # k =>
          /\ pair_job[j].picked # k
          /\ pair_job[j].overwrote # k
          /\ (pair_job[j].pc = "done" /\ pair_job[k].pc = "done") =>
                /\ pair_job[j].final # pair_job[k].final
                /\ pair_job[j].final \in PairNames(pair_dir)

====
